---------------------------- MODULE Spec2Model ----------------------------
(***************************************************************************)
(* A model of the PolyglotRAG ingestion pipeline: the ProcessingJob state  *)
(* machine, the durable job store (PostgresJobRepository and its row       *)
(* conversions), the in-process MpscJobQueue with its forwarder task and   *)
(* background receiver, the queue_processing_job and cancel use cases and  *)
(* the BackgroundProcessor workers, the recursive text splitter, the       *)
(* embedding client, the search path, the upload use cases, the direct     *)
(* URL use cases, the paging use cases and the job progress stream.        *)
(*                                                                         *)
(* The specifications share the definitions:                               *)
(*   SpecJob    one ProcessingJob driven by arbitrary method calls;        *)
(*   SpecQueue  the queue API (enqueue, dequeue, try_dequeue, remove_job,  *)
(*              health_check), the forwarder and the workers' recv;        *)
(*   Spec       one requester, the canceller, the queue and a worker       *)
(*              running process_job; FairSpec adds fair scheduling;        *)
(*   SpecRace   concurrent requesters of queue_processing_job;             *)
(*   SpecWork   one requester of every job type and a worker;              *)
(*   SpecSplit  split_text applied to every short text;                    *)
(*   SpecChunks two concurrent requesters and a worker running the jobs;   *)
(*   SpecEmbed  the retry loop of InferenceClient::send_embed_request;     *)
(*   SpecSearch one search request over small embedding and chunk tables;  *)
(*   SpecUpload concurrent callers of UploadFileUseCase::execute;          *)
(*   SpecUploadProc one caller of upload_with_processing;                  *)
(*   SpecDirect one caller of process_url_direct / process_youtube_direct; *)
(*   SpecStatus ProcessingStatus::to_string and from_string;               *)
(*   SpecPaging one caller of list_files and get_file_chunks;              *)
(*   SpecStream a job progress stream beside a requester and a worker;     *)
(*   SpecPool   one requester and two workers running process_job;         *)
(*   SpecSplitLoop one split_text call, the loop of split_by_length turn   *)
(*              by turn; FairSpecSplitLoop lets the call keep running.     *)
(***************************************************************************)
EXTENDS Integers, Sequences, FiniteSets, TLC

VARIABLES
    ejob,          \* SpecJob: the ProcessingJob under test
    eret,          \* SpecJob: what the last method call returned
    clock,         \* Utc::now(), a logical instant
    jobRows,       \* processing_jobs table: id -> JobModel row
    nextJobId,     \* the next Uuid::new_v4() a constructor hands out
    pending_jobs,  \* MpscJobQueue.pending_jobs: the keys of the map
    stats,         \* MpscJobQueue.stats
    mainChan,      \* the unbounded channel behind MpscJobQueue.sender
    bgChan,        \* the unbounded channel behind MpscJobQueueReceiver
    mainLock,      \* who holds MpscJobQueue.receiver's mutex
    bgLock,        \* who holds MpscJobQueueReceiver.receiver's mutex
    fwd,           \* the forwarder task spawned by create_pair
    cl,            \* callers of queue_processing_job / enqueue
    cn,            \* the caller of cancel / remove_job
    cons,          \* the caller of dequeue / try_dequeue
    wk,            \* the BackgroundProcessor workers
    chunkStore,    \* content_chunks table
    embStore,      \* embeddings table
    delivered,     \* history: job id -> the receivers it was handed to, in order
    removedOk,     \* history: job ids for which remove_job returned true
    cancelledOk,   \* history: job ids for which cancel returned Ok, with the phase
    lateDelivery,  \* history: job ids handed out after remove_job returned true
    stext,         \* SpecSplit: the text handed to split_text
    smax,          \* SpecSplit: max_chunk_size
    schunks,       \* SpecSplit: what split_text returned, None before the call
    em,            \* SpecEmbed: one InferenceClient::send_embed_request call
    sr,            \* SpecSearch: one SearchContentUseCase::execute call
    up,            \* SpecUpload: the callers of UploadFileUseCase::execute
    fileRows,      \* SpecUpload: files table
    blobs,         \* SpecUpload: the files LocalFileStorage has written
    nextUuid,      \* SpecUpload: the next Uuid::new_v4() of store_file / File::new
    uwp,           \* SpecUploadProc: one UploadWithProcessingUseCase::execute call
    dir,           \* SpecDirect: one process_url_direct / process_youtube_direct call
    pg,            \* SpecPaging: one list_files / get_file_chunks call
    sse,           \* SpecStream: one job progress stream
    ps,            \* SpecStatus: one ProcessingStatus and its string round trip
    sl             \* SpecSplitLoop: the position of one split_text call

varsJob   == <<ejob, eret, clock>>
varsRepo  == <<jobRows, nextJobId, chunkStore, embStore>>
varsQueue == <<pending_jobs, stats, mainChan, bgChan, mainLock, bgLock, fwd>>
varsProc  == <<cl, cn, cons, wk>>
varsHist  == <<delivered, removedOk, cancelledOk, lateDelivery>>
varsSplit == <<stext, smax, schunks>>
varsEmbed == <<em>>
varsSearch == <<sr>>
varsUpload == <<up, fileRows, blobs, nextUuid>>
varsExt   == <<uwp, dir, pg, sse, ps, sl>>
varsAux   == <<varsEmbed, varsSearch, varsUpload, varsExt>>
vars      == <<varsJob, varsRepo, varsQueue, varsProc, varsHist, varsSplit, varsAux>>

-----------------------------------------------------------------------------
(* Bounds of the model *)

MaxClock == 4       \* method calls explored on one ProcessingJob
MaxJobs  == 2       \* jobs constructed in one behaviour
MaxQueued == 1      \* jobs of a behaviour with one requester and one worker

FileIds   == {"f1"}
Workers   == {"w1", "w2"}
Clients   == {"c1", "c2"}
Producers == {"c1"}
Processors == {"w1"}
Urls      == {"u1"}

None == <<>>

-----------------------------------------------------------------------------
(* ProcessingStatus and ProcessingJob (domain) *)

Pending    == <<"Pending">>
Processing == <<"Processing">>
Completed  == <<"Completed">>
Failed(reason) == <<"Failed", reason>>

is_pending(s)    == s = Pending
is_processing(s) == s = Processing
is_completed(s)  == s = Completed
is_failed(s)     == s[1] = "Failed"
is_terminal(s)   == is_completed(s) \/ is_failed(s)

\* f32 progress in tenths; NaN compares false with everything
NaN == 99
FLt(a, b) == a # NaN /\ b # NaN /\ a < b
FGt(a, b) == a # NaN /\ b # NaN /\ a > b

FileProcessing         == <<"FileProcessing">>
UrlExtraction(url)     == <<"UrlExtraction", url>>
YoutubeExtraction(url) == <<"YoutubeExtraction", url>>
JobTypes == {FileProcessing} \cup {UrlExtraction(u) : u \in Urls}
              \cup {YoutubeExtraction(u) : u \in Urls}

\* new_file_processing / new_url_extraction / new_youtube_extraction
NewJob(id, file_id, job_type, now) ==
    [ id             |-> id,
      file_id        |-> file_id,
      job_type       |-> job_type,
      status         |-> Pending,
      progress       |-> 0,
      created_at     |-> now,
      started_at     |-> None,
      completed_at   |-> None,
      error_message  |-> None,
      result_summary |-> None ]

Ok(job)  == [ok |-> TRUE, job |-> job]
Err(job) == [ok |-> FALSE, job |-> job]

start_processing(job, now) ==
    IF ~is_pending(job.status) THEN Err(job)
    ELSE Ok([job EXCEPT !.status = Processing,
                        !.started_at = <<now>>,
                        !.progress = 1])

update_progress(job, progress, message) ==
    IF ~is_processing(job.status) THEN Err(job)
    ELSE IF FLt(progress, 0) \/ FGt(progress, 10) THEN Err(job)
    ELSE Ok([job EXCEPT !.progress = progress,
                        !.error_message =
                            IF message # None THEN message ELSE @])

complete_processing(job, result, now) ==
    IF ~is_processing(job.status) THEN Err(job)
    ELSE Ok([job EXCEPT !.status = Completed,
                        !.progress = 10,
                        !.completed_at = <<now>>,
                        !.result_summary = <<result>>,
                        !.error_message = None])

\* a failure that also resets the progress
fail_processingResetsProgress(job, error, now) ==
    IF ~is_processing(job.status) THEN Err(job)
    ELSE Ok([job EXCEPT !.status = Failed(error),
                        !.progress = 0,
                        !.completed_at = <<now>>,
                        !.error_message = <<error>>])

fail_processing(job, error, now) ==
    IF ~is_processing(job.status) THEN Err(job)
    ELSE Ok([job EXCEPT !.status = Failed(error),
                        !.completed_at = <<now>>,
                        !.error_message = <<error>>])

\* a cancel that refuses only a Completed job
cancelNoGuard(job, now) ==
    IF is_completed(job.status) THEN Err(job)
    ELSE Ok([job EXCEPT !.status = Failed("Cancelled by user"),
                        !.completed_at = <<now>>,
                        !.error_message = <<"Job was cancelled">>])

cancel(job, now) ==
    IF is_terminal(job.status) THEN Err(job)
    ELSE Ok([job EXCEPT !.status = Failed("Cancelled by user"),
                        !.completed_at = <<now>>,
                        !.error_message = <<"Job was cancelled">>])

is_active(job) == job.status = Pending \/ job.status = Processing


-----------------------------------------------------------------------------
(* JobModel rows and PostgresJobRepository (infrastructure/database) *)

\* Uuid::new_v4() of a job rebuilt from a row: the id of no row of the table
FreshUuid == 0

status_to_string(s) ==
    CASE s = Pending    -> "pending"
      [] s = Processing -> "processing"
      [] s = Completed  -> "completed"
      [] OTHER          -> "failed"

job_type_str(jt) ==
    CASE jt[1] = "FileProcessing" -> "file_processing"
      [] jt[1] = "UrlExtraction"  -> "url_extraction"
      [] OTHER                    -> "youtube_extraction"

job_data(jt) == IF jt[1] = "FileProcessing" THEN None ELSE <<jt[2]>>

\* impl From<ProcessingJob> for NewJobModel
NewJobModelFrom(job) ==
    [ id             |-> job.id,
      file_id        |-> job.file_id,
      job_type       |-> job_type_str(job.job_type),
      job_data       |-> job_data(job.job_type),
      status         |-> status_to_string(job.status),
      progress       |-> job.progress,
      created_at     |-> job.created_at,
      started_at     |-> job.started_at,
      completed_at   |-> job.completed_at,
      error_message  |-> IF is_failed(job.status) THEN <<job.status[2]>>
                         ELSE job.error_message,
      result_summary |-> job.result_summary ]

\* impl From<ProcessingJob> for UpdateJobModel, applied to a row as diesel's
\* AsChangeset does: a field that is None in the changeset keeps the column
ApplyUpdateJobModel(row, job) ==
    [ row EXCEPT
        !.status         = status_to_string(job.status),
        !.progress       = job.progress,
        !.started_at     = job.started_at,
        !.completed_at   = job.completed_at,
        !.error_message  = IF is_failed(job.status) THEN <<job.status[2]>>
                           ELSE IF job.error_message # None THEN job.error_message
                           ELSE @,
        !.result_summary = job.result_summary ]

\* impl TryFrom<JobModel> for ProcessingJob: the job type is read back from the
\* row, the status and the result are parsed and dropped, and the job returned
\* is a newly constructed one
JobFromModel(row, now) ==
    LET typeOk   == row.job_type \in {"file_processing", "url_extraction",
                                      "youtube_extraction"}
        urlOk    == row.job_type = "file_processing" \/ row.job_data # None
        statusOk == row.status \in {"pending", "processing", "completed", "failed"}
        jt == CASE row.job_type = "file_processing" -> FileProcessing
                [] row.job_type = "url_extraction"  -> UrlExtraction(row.job_data[1])
                [] OTHER                             -> YoutubeExtraction(row.job_data[1])
    IN  IF typeOk /\ urlOk /\ statusOk
        THEN Ok(NewJob(FreshUuid, row.file_id, jt, now))
        ELSE Err(None)

\* PostgresJobRepository::save: INSERT
RepoSave(rows, job) ==
    [id \in DOMAIN rows \cup {job.id} |->
        IF id = job.id THEN NewJobModelFrom(job) ELSE rows[id]]

\* PostgresJobRepository::update: UPDATE ... WHERE id = job.id(); a statement
\* that matches no row is a success
RepoUpdate(rows, job) ==
    IF job.id \in DOMAIN rows
    THEN [rows EXCEPT ![job.id] = ApplyUpdateJobModel(@, job)]
    ELSE rows

\* PostgresJobRepository::find_by_id
RepoFindById(rows, job_id, now) ==
    IF job_id \in DOMAIN rows THEN <<JobFromModel(rows[job_id], now)>> ELSE None

\* PostgresJobRepository::find_by_file_id, as the set of conversions
RepoFindByFileId(rows, file_id, now) ==
    {JobFromModel(rows[id], now) : id \in {i \in DOMAIN rows : rows[i].file_id = file_id}}

\* the durable status of a job, read off its row
RowIsTerminal(row)  == row.status \in {"completed", "failed"}
RowIsActive(row)    == row.status \in {"pending", "processing"}
RowIsCancelled(row) == row.status = "failed" /\ row.error_message = <<"Cancelled by user">>


-----------------------------------------------------------------------------
(* Initial values *)

IdleClient   == [pc |-> "idle", file_id |-> "", job_type |-> None, job |-> None, ret |-> "none"]
IdleCancel   == [pc |-> "idle", job_id |-> FreshUuid, job |-> None, ret |-> "none"]
IdleConsumer == [pc |-> "idle", job |-> None, ret |-> "none"]
IdleWorker   == [pc |-> "idle", job |-> None, stale |-> FALSE, chunks |-> <<>>, embedded |-> 0,
                 result |-> None]
IdleFwd      == [pc |-> "lock", job |-> None]

InitJob ==
    /\ ejob \in {NewJob(1, f, jt, 0) : f \in FileIds, jt \in JobTypes}
    /\ eret = [op |-> "new", ok |-> TRUE]
    /\ clock = 0

\* the variables of SpecJob, at rest in the other specifications
InitJobIdle ==
    /\ ejob = None
    /\ eret = None
    /\ clock = 0

\* the variables of SpecSplit, at rest in the other specifications
InitSplitIdle ==
    /\ stext = <<>>
    /\ smax = 1
    /\ schunks = None

\* no embedding request has been made
IdleEmbed ==
    [pc |-> "idle", config |-> [max_retries |-> 0, backoff_factor |-> [num |-> 1, den |-> 1]],
     attempts |-> 0, errors |-> <<>>, slept |-> <<>>, ret |-> "none"]

InitEmbedIdle == em = IdleEmbed

\* no search has been requested
IdleSearch ==
    [pc |-> "idle", request |-> None, limit |-> 0, calls |-> <<>>, query_vector |-> None,
     loaded |-> <<>>, hits |-> <<>>, next |-> 1, results |-> <<>>, ret |-> "none"]

InitSearchIdle == sr = IdleSearch

\* no upload has been requested
IdleUpload == [pc |-> "idle", file_name |-> "", file_data |-> "", file_hash |-> "",
               stored |-> FALSE, path |-> 0, ret |-> "none"]

InitUpload ==
    /\ up = [u \in Clients |-> IdleUpload]
    /\ fileRows = {}
    /\ blobs = {}
    /\ nextUuid = 1

\* no upload_with_processing call has been made
IdleUwp == [pc |-> "idle", auto_process |-> FALSE, file_id |-> 0, found |-> FALSE,
            verification_attempts |-> 0, slept_ms |-> 0, job_id |-> None,
            queue_ret |-> "none", status |-> "", message |-> "", ret |-> "none"]

\* no direct URL call has been made
IdleDirect == [pc |-> "idle", kind |-> "", url |-> "", auto_process |-> FALSE,
               video_id |-> None, file_id |-> 0, queue_ret |-> "none",
               ret |-> "none", message |-> ""]

\* no paging request has been made
IdlePaging == [pc |-> "idle", op |-> "", file_id |-> "", skip |-> None, limit |-> None,
               calls |-> <<>>, ret |-> "none"]

\* no progress stream has been opened
IdleStream == [pc |-> "idle", job_id |-> FreshUuid, sent |-> 0, last |-> "", row_status |-> ""]

\* no split_text call is under way
IdleSplitLoop == [pc |-> "call", separator_index |-> 1, start |-> 0, chunks |-> <<>>]

InitExtIdle ==
    /\ uwp = IdleUwp
    /\ dir = IdleDirect
    /\ pg = IdlePaging
    /\ sse = IdleStream
    /\ ps = None
    /\ sl = IdleSplitLoop

InitAuxIdle == InitEmbedIdle /\ InitSearchIdle /\ InitUpload /\ InitExtIdle

InitRepo ==
    /\ jobRows = <<>>
    /\ nextJobId = 1
    /\ chunkStore = {}
    /\ embStore = {}

InitQueue ==
    /\ pending_jobs = {}
    /\ stats = [total_enqueued |-> 0, total_dequeued |-> 0, last_activity |-> None]
    /\ mainChan = <<>>
    /\ bgChan = <<>>
    /\ mainLock = "free"
    /\ bgLock = "free"
    /\ fwd = IdleFwd

InitProc ==
    /\ cl = [c \in Clients |-> IdleClient]
    /\ cn = IdleCancel
    /\ cons = IdleConsumer
    /\ wk = [w \in Workers |-> IdleWorker]

InitHist ==
    /\ delivered = <<>>
    /\ removedOk = {}
    /\ cancelledOk = {}
    /\ lateDelivery = {}

-----------------------------------------------------------------------------
(* SpecJob: one ProcessingJob under arbitrary sequences of its methods *)

ProgressInputs == {-1, 0, 1, 3, 6, 10, 11, NaN}
Messages       == {None, <<"Halfway done">>}
Results        == {[chunks_created |-> 1, embeddings_created |-> 1,
                    processing_time_ms |-> 0, extracted_text_length |-> 0]}
Errors         == {"Something went wrong"}

Called(op, r) ==
    /\ clock < MaxClock
    /\ clock' = clock + 1
    /\ ejob' = r.job
    /\ eret' = [op |-> op, ok |-> r.ok]
    /\ UNCHANGED <<varsSplit, varsAux, varsRepo, varsQueue, varsProc, varsHist>>

EStartProcessing == Called("start_processing", start_processing(ejob, clock + 1))

EUpdateProgress ==
    \E p \in ProgressInputs, m \in Messages :
        Called("update_progress", update_progress(ejob, p, m))

ECompleteProcessing ==
    \E res \in Results :
        Called("complete_processing", complete_processing(ejob, res, clock + 1))

EFailProcessing ==
    \E e \in Errors : Called("fail_processing", fail_processing(ejob, e, clock + 1))

ECancel == Called("cancel", cancel(ejob, clock + 1))

NextJob ==
    \/ EStartProcessing
    \/ EUpdateProgress
    \/ ECompleteProcessing
    \/ EFailProcessing
    \/ ECancel

InitSpecJob == InitJob /\ InitRepo /\ InitQueue /\ InitProc /\ InitHist /\ InitSplitIdle /\ InitAuxIdle

SpecJob == InitSpecJob /\ [][NextJob]_vars

-----------------------------------------------------------------------------
(* Claims about the ProcessingJob state machine *)

\* C5: for every job reachable from a new job by its methods, progress lies in
\* [0.0, 1.0] and the status is Completed exactly when progress is 1.0
C5_ProgressInvariant ==
    /\ ~FLt(ejob.progress, 0) /\ ~FGt(ejob.progress, 10) /\ ejob.progress # NaN
    /\ (is_completed(ejob.status) <=> ejob.progress = 10)

\* C6: once the job is Completed or Failed, every method call returns an error
\* and leaves every field of the job as it was
C6_TerminalIsFrozen ==
    [][is_terminal(ejob.status) => (ejob' = ejob /\ ~eret'.ok)]_varsJob

C6_Witness ==
    /\ is_failed(ejob.status)
    /\ eret.op = "cancel"
    /\ ~eret.ok

\* C16: a Failed job, failed by fail_processing or by cancel, has completed_at
\* and a message set, and the failing call left its progress as it was
C16_FailedFields ==
    [][is_failed(ejob'.status) =>
          /\ ejob'.completed_at # None
          /\ ejob'.error_message # None
          /\ (~is_failed(ejob.status) => ejob'.progress = ejob.progress)]_varsJob

\* fail_processing has just failed a job whose progress had reached 0.3
C16_Witness ==
    /\ is_failed(ejob.status)
    /\ eret.op = "fail_processing" /\ eret.ok
    /\ ejob.progress = 3


-----------------------------------------------------------------------------
(* MpscJobQueue, its forwarder task and MpscJobQueueReceiver *)

JobIds == 1..MaxJobs

Now == <<clock>>

\* a send that puts the job at the head of the channel
ChanSendFront(chan, job) == <<job>> \o chan

\* UnboundedSender::send: the job goes to the back of the channel
ChanSend(chan, job) == Append(chan, job)

\* a job leaves a channel for `receiver`
Deliver(job, receiver) ==
    /\ delivered' = Append(delivered, <<job.id, receiver>>)
    /\ lateDelivery' = IF job.id \in removedOk THEN lateDelivery \cup {job.id}
                       ELSE lateDelivery

\* enqueue, first block: pending.insert(job.id(), job.clone())
EnqInsert(c) ==
    /\ cl[c].pc = "enq_insert"
    /\ pending_jobs' = pending_jobs \cup {cl[c].job.id}
    /\ cl' = [cl EXCEPT ![c].pc = "enq_send"]
    /\ UNCHANGED <<varsSplit, varsAux, varsJob, varsRepo, stats, mainChan, bgChan, mainLock, bgLock, fwd,
                   cn, cons, wk, varsHist>>

\* enqueue: self.sender.send(job); the receiver lives as long as the queue, so
\* the send cannot fail
EnqSend(c) ==
    /\ cl[c].pc = "enq_send"
    /\ mainChan' = ChanSend(mainChan, cl[c].job)
    /\ cl' = [cl EXCEPT ![c].pc = "enq_stats"]
    /\ UNCHANGED <<varsSplit, varsAux, varsJob, varsRepo, pending_jobs, stats, bgChan, mainLock, bgLock, fwd,
                   cn, cons, wk, varsHist>>

\* enqueue, last block: stats.total_enqueued += 1; Ok(())
EnqStats(c) ==
    /\ cl[c].pc = "enq_stats"
    /\ stats' = [stats EXCEPT !.total_enqueued = @ + 1, !.last_activity = Now]
    /\ cl' = [cl EXCEPT ![c] = [IdleClient EXCEPT !.ret = "queued"]]
    /\ UNCHANGED <<varsSplit, varsAux, varsJob, varsRepo, pending_jobs, mainChan, bgChan, mainLock, bgLock, fwd,
                   cn, cons, wk, varsHist>>

\* dequeue: self.receiver.lock().await
DeqLock ==
    /\ cons.pc = "idle"
    /\ mainLock = "free"
    /\ mainLock' = "cons"
    /\ cons' = [cons EXCEPT !.pc = "deq_recv"]
    /\ UNCHANGED <<varsSplit, varsAux, varsJob, varsRepo, pending_jobs, stats, mainChan, bgChan, bgLock, fwd,
                   cl, cn, wk, varsHist>>

\* dequeue: receiver.recv().await, the guard dropped at the end of the block
DeqRecv ==
    /\ cons.pc = "deq_recv"
    /\ mainChan # <<>>
    /\ mainChan' = Tail(mainChan)
    /\ mainLock' = "free"
    /\ cons' = [cons EXCEPT !.pc = "deq_remove", !.job = Head(mainChan)]
    /\ Deliver(Head(mainChan), "cons")
    /\ UNCHANGED <<varsSplit, varsAux, varsJob, varsRepo, pending_jobs, stats, bgChan, bgLock, fwd,
                   cl, cn, wk, removedOk, cancelledOk>>

\* try_dequeue: lock, receiver.try_recv(), unlock
TryDequeue ==
    /\ cons.pc = "idle"
    /\ mainLock = "free"
    /\ IF mainChan # <<>>
       THEN /\ mainChan' = Tail(mainChan)
            /\ cons' = [cons EXCEPT !.pc = "deq_remove", !.job = Head(mainChan)]
            /\ Deliver(Head(mainChan), "cons")
       ELSE /\ cons' = [cons EXCEPT !.job = None]
            /\ UNCHANGED <<mainChan, delivered, lateDelivery>>
    /\ UNCHANGED <<varsSplit, varsAux, varsJob, varsRepo, pending_jobs, stats, bgChan, mainLock, bgLock, fwd,
                   cl, cn, wk, removedOk, cancelledOk>>

\* dequeue / try_dequeue: pending.remove(&job.id())
DeqRemove ==
    /\ cons.pc = "deq_remove"
    /\ pending_jobs' = pending_jobs \ {cons.job.id}
    /\ cons' = [cons EXCEPT !.pc = "deq_stats"]
    /\ UNCHANGED <<varsSplit, varsAux, varsJob, varsRepo, stats, mainChan, bgChan, mainLock, bgLock, fwd,
                   cl, cn, wk, varsHist>>

\* dequeue / try_dequeue: stats.total_dequeued += 1; Ok(job)
DeqStats ==
    /\ cons.pc = "deq_stats"
    /\ stats' = [stats EXCEPT !.total_dequeued = @ + 1, !.last_activity = Now]
    /\ cons' = [cons EXCEPT !.pc = "idle"]
    /\ UNCHANGED <<varsSplit, varsAux, varsJob, varsRepo, pending_jobs, mainChan, bgChan, mainLock, bgLock, fwd,
                   cl, cn, wk, varsHist>>

\* a removal that answers true also for an id the map does not hold
remove_jobAnswersTrue(pending, job_id) ==
    [pending |-> pending \ {job_id}, ret |-> TRUE]

\* remove_job: Ok(pending.remove(&job_id).is_some())
remove_job(pending, job_id) ==
    [pending |-> pending \ {job_id}, ret |-> job_id \in pending]

QueueRemove(job_id) ==
    LET r == remove_job(pending_jobs, job_id) IN
    /\ pending_jobs' = r.pending
    /\ removedOk' = IF r.ret THEN removedOk \cup {job_id} ELSE removedOk

\* a caller of remove_job with the id `id`, and what it was answered
RemoveJobOf(id) ==
    /\ cn.pc = "idle"
    /\ QueueRemove(id)
    /\ cn' = [IdleCancel EXCEPT !.ret = IF remove_job(pending_jobs, id).ret THEN "true"
                                        ELSE "false"]
    /\ UNCHANGED <<varsSplit, varsAux, varsJob, varsRepo, stats, mainChan, bgChan, mainLock, bgLock, fwd,
                   cl, cons, wk, delivered, cancelledOk, lateDelivery>>

RemoveJob == \E id \in JobIds : RemoveJobOf(id)

\* health_check: the QueueHealth built while both mutexes are held
HealthReport ==
    [ queue_size     |-> Cardinality(pending_jobs),
      total_enqueued |-> stats.total_enqueued,
      total_dequeued |-> stats.total_dequeued,
      is_healthy     |-> TRUE,
      last_activity  |-> stats.last_activity ]

\* a caller of health_check: it reads HealthReport and changes nothing
HealthCheck ==
    /\ HealthReport.is_healthy
    /\ UNCHANGED vars

\* forwarder: main_receiver.lock().await
FwdLock ==
    /\ fwd.pc = "lock"
    /\ mainLock = "free"
    /\ mainLock' = "fwd"
    /\ fwd' = [fwd EXCEPT !.pc = "recv"]
    /\ UNCHANGED <<varsSplit, varsAux, varsJob, varsRepo, pending_jobs, stats, mainChan, bgChan, bgLock,
                   varsProc, varsHist>>

\* forwarder: receiver.recv().await, the guard dropped at the end of the block
FwdRecv ==
    /\ fwd.pc = "recv"
    /\ mainChan # <<>>
    /\ mainChan' = Tail(mainChan)
    /\ mainLock' = "free"
    /\ fwd' = [pc |-> "send", job |-> Head(mainChan)]
    /\ UNCHANGED <<varsSplit, varsAux, varsJob, varsRepo, pending_jobs, stats, bgChan, bgLock,
                   varsProc, varsHist>>

\* forwarder: bg_sender_clone.send(job)
FwdSend ==
    /\ fwd.pc = "send"
    /\ bgChan' = ChanSend(bgChan, fwd.job)
    /\ fwd' = IdleFwd
    /\ UNCHANGED <<varsSplit, varsAux, varsJob, varsRepo, pending_jobs, stats, mainChan, mainLock, bgLock,
                   varsProc, varsHist>>

\* MpscJobQueueReceiver::recv: self.receiver.lock().await
WLock(w) ==
    /\ wk[w].pc = "idle"
    /\ bgLock = "free"
    /\ bgLock' = w
    /\ wk' = [wk EXCEPT ![w].pc = "recv"]
    /\ UNCHANGED <<varsSplit, varsAux, varsJob, varsRepo, pending_jobs, stats, mainChan, bgChan, mainLock, fwd,
                   cl, cn, cons, varsHist>>

\* a receive that leaves the job in the channel
ChanAfterRecvKeep(chan) == chan

\* what receiver.recv() leaves in the channel
ChanAfterRecv(chan) == Tail(chan)

\* MpscJobQueueReceiver::recv: receiver.recv().await, then worker_loop's Some(v)
WRecv(w) ==
    /\ wk[w].pc = "recv"
    /\ bgChan # <<>>
    /\ bgChan' = ChanAfterRecv(bgChan)
    /\ bgLock' = "free"
    /\ wk' = [wk EXCEPT ![w] = [IdleWorker EXCEPT
                    !.pc = "start", !.job = Head(bgChan),
                    !.stale = \E x \in cancelledOk : x.id = Head(bgChan).id]]
    /\ Deliver(Head(bgChan), w)
    /\ UNCHANGED <<varsSplit, varsAux, varsJob, varsRepo, pending_jobs, stats, mainChan, mainLock, fwd,
                   cl, cn, cons, removedOk, cancelledOk>>


-----------------------------------------------------------------------------
(* QueueProcessingJobUseCase::execute *)

\* the files table holds FileIds; a request may name a file it does not hold
RequestedFiles == FileIds \cup {"f0"}

\* the job types the requests ask for; YoutubeExtraction runs the same stages
\* as UrlExtraction
RequestedJobTypes == {FileProcessing} \cup {UrlExtraction(u) : u \in Urls}

Returned(c, ret) == cl' = [cl EXCEPT ![c] = [IdleClient EXCEPT !.ret = ret]]

\* file_repository.find_by_id(request.file_id), for a request whose job type
\* is one of `types`
QFindFileOf(c, types) ==
    /\ cl[c].pc = "idle"
    /\ \E f \in RequestedFiles, jt \in types, dbOk \in BOOLEAN :
        IF ~dbOk THEN Returned(c, "RepositoryError")
        ELSE IF f \notin FileIds THEN Returned(c, "FileNotFound")
        ELSE cl' = [cl EXCEPT ![c] = [IdleClient EXCEPT !.pc = "check",
                                                        !.file_id = f,
                                                        !.job_type = jt]]
    /\ UNCHANGED <<varsSplit, varsAux, varsJob, varsRepo, varsQueue, cn, cons, wk, varsHist>>

QFindFile(c) == QFindFileOf(c, RequestedJobTypes)

\* TryFrom<FileModel> for File builds the File with File::new: the File that
\* find_by_id returns carries a new Uuid, not the id of its row; FreshFileIds
\* are such ids, the first for a requester's load, the others for the load made
\* for job 1, 2, ...
FreshFileIds == <<"new0", "new1", "new2", "new3", "new4">>

FileFromModel(file_id) == [id |-> FreshFileIds[1], row_id |-> file_id]

FileFromModelFor(job) == [id |-> FreshFileIds[job.id + 1], row_id |-> job.file_id]

\* existing_jobs.iter().any(|job| job.is_active()); a row that does not convert
\* fails the whole find_by_file_id
AnyActive(jobs) == \E r \in jobs : r.ok /\ is_active(r.job)

\* job_repository.find_by_file_id(file.id()), the active-job test and the
\* construction of the job
QCheckOf(c, cap) ==
    /\ cl[c].pc = "check"
    /\ \E dbOk \in BOOLEAN :
        LET file == FileFromModel(cl[c].file_id)
            existing == RepoFindByFileId(jobRows, file.id, clock)
        IN
        IF ~dbOk \/ (\E r \in existing : ~r.ok)
        THEN Returned(c, "RepositoryError") /\ UNCHANGED nextJobId
        ELSE IF AnyActive(existing)
        THEN Returned(c, "ValidationError") /\ UNCHANGED nextJobId
        ELSE /\ nextJobId <= cap
             /\ cl' = [cl EXCEPT ![c].pc = "save",
                                 ![c].job = NewJob(nextJobId, cl[c].file_id,
                                                   cl[c].job_type, clock)]
             /\ nextJobId' = nextJobId + 1
    /\ UNCHANGED <<varsSplit, varsAux, varsJob, jobRows, chunkStore, embStore, varsQueue, cn, cons, wk, varsHist>>

QCheck(c) == QCheckOf(c, MaxJobs)

\* job_repository.save(&job)
QSave(c) ==
    /\ cl[c].pc = "save"
    /\ \E dbOk \in BOOLEAN :
        IF dbOk
        THEN /\ jobRows' = RepoSave(jobRows, cl[c].job)
             /\ cl' = [cl EXCEPT ![c].pc = "enq_insert"]
        ELSE /\ Returned(c, "RepositoryError")
             /\ UNCHANGED jobRows
    /\ UNCHANGED <<varsSplit, varsAux, varsJob, nextJobId, chunkStore, embStore, varsQueue, cn, cons, wk, varsHist>>

-----------------------------------------------------------------------------
(* CancelJobUseCase::execute *)

HeldBy(w, job_id) ==
    wk[w].job # None /\ wk[w].job.id = job_id /\ wk[w].pc \notin {"idle", "recv"}

\* job_repository.find_by_id(request.job_id) and the is_active test
CFind ==
    /\ cn.pc = "idle"
    /\ \E id \in JobIds, dbOk \in BOOLEAN :
        LET found == RepoFindById(jobRows, id, clock) IN
        IF ~dbOk \/ (found # None /\ ~found[1].ok)
        THEN cn' = [IdleCancel EXCEPT !.ret = "RepositoryError"]
        ELSE IF found = None
        THEN cn' = [IdleCancel EXCEPT !.ret = "JobNotFound"]
        ELSE IF ~is_active(found[1].job)
        THEN cn' = [IdleCancel EXCEPT !.ret = "JobNotCancellable"]
        ELSE cn' = [pc |-> IF is_pending(found[1].job.status) THEN "remove" ELSE "update",
                    job_id |-> id, job |-> found[1].job, ret |-> "none"]
    /\ UNCHANGED <<varsSplit, varsAux, varsJob, varsRepo, varsQueue, cl, cons, wk, varsHist>>

\* let _ = self.job_queue.remove_job(request.job_id).await
CRemove ==
    /\ cn.pc = "remove"
    /\ QueueRemove(cn.job_id)
    /\ cn' = [cn EXCEPT !.pc = "update"]
    /\ UNCHANGED <<varsSplit, varsAux, varsJob, varsRepo, stats, mainChan, bgChan, mainLock, bgLock, fwd,
                   cl, cons, wk, delivered, cancelledOk, lateDelivery>>

\* job.cancel() and job_repository.update(&job)
CUpdate ==
    /\ cn.pc = "update"
    /\ LET r == cancel(cn.job, clock) IN
       IF ~r.ok
       THEN /\ cn' = [IdleCancel EXCEPT !.ret = "JobNotCancellable"]
            /\ UNCHANGED <<jobRows, cancelledOk>>
       ELSE \E dbOk \in BOOLEAN :
            IF dbOk
            THEN /\ jobRows' = RepoUpdate(jobRows, r.job)
                 /\ cn' = [IdleCancel EXCEPT !.ret = "cancelled"]
                 /\ cancelledOk' = cancelledOk \cup
                        {[id |-> cn.job_id, held |-> \E w \in Workers : HeldBy(w, cn.job_id)]}
            ELSE /\ cn' = [IdleCancel EXCEPT !.ret = "RepositoryError"]
                 /\ UNCHANGED <<jobRows, cancelledOk>>
    /\ UNCHANGED <<varsSplit, varsAux, varsJob, nextJobId, chunkStore, embStore, varsQueue, cl, cons, wk,
                   delivered, removedOk, lateDelivery>>

-----------------------------------------------------------------------------
(* BackgroundProcessor::process_job *)

Kind(job) == job.job_type[1]

\* the pieces split_text returns for an extracted text: each is at least the
\* 10-character floor ("big") or below it ("small")
Texts == {<<"big">>, <<"small", "big">>}

\* the stage that follows `pc` in process_file_job (with
\* DocumentProcessorService::process_file) and in process_url_extraction_job /
\* process_youtube_extraction_job
NextStage(job, pc) ==
    IF Kind(job) = "FileProcessing"
    THEN CASE pc = "start"       -> "p01"
           [] pc = "p01"         -> "find_file"
           [] pc = "find_file"   -> "p02"
           [] pc = "p02"         -> "extract"
           [] pc = "extract"     -> "save_chunks"
           [] pc = "save_chunks" -> "embed"
           [] pc = "embed"       -> "save_emb"
           [] OTHER              -> "final"
    ELSE CASE pc = "start"       -> "p01"
           [] pc = "p01"         -> "extract"
           [] pc = "extract"     -> "p03"
           [] pc = "p03"         -> "save_chunks"
           [] pc = "save_chunks" -> "p06"
           [] pc = "p06"         -> "embed"
           [] pc = "embed"       -> "save_emb"
           [] OTHER              -> "final"

\* progress calls that all report 0.0
ProgressAtZero(job, pc) == <<0, "Loading file...">>

\* the progress value and message of each update_progress call
ProgressAt(job, pc) ==
    CASE pc = "p01" -> <<1, CASE Kind(job) = "FileProcessing" -> "Loading file..."
                              [] Kind(job) = "UrlExtraction"  -> "Extracting content from URL..."
                              [] OTHER -> "Fetching YouTube transcript...">>
      [] pc = "p02" -> <<2, "Processing document...">>
      [] pc = "p03" -> <<3, "Creating chunks...">>
      [] OTHER      -> <<6, "Generating embeddings...">>

\* DocumentProcessorService::create_chunks: consecutive indices, stopping at the
\* first piece below the floor
CreateChunksFile(job, text) ==
    LET first == {i \in 1..Len(text) : text[i] = "small"}
        n == IF first = {} THEN Len(text)
             ELSE (CHOOSE i \in first : \A k \in first : i <= k) - 1
    IN  [i \in 1..n |-> [id |-> <<job.id, i - 1>>, file_id |-> FileFromModelFor(job).id,
                      index |-> i - 1]]

\* BackgroundProcessor::create_chunks_from_text: the index is the piece's place
\* in the split, pieces below the floor are skipped
CreateChunksUrl(job, text) ==
    LET F[i \in 0..Len(text)] ==
            IF i = 0 THEN <<>>
            ELSE IF text[i] = "small" THEN F[i - 1]
            ELSE Append(F[i - 1], [id |-> <<job.id, i - 1>>, file_id |-> job.file_id,
                                   index |-> i - 1])
    IN  F[Len(text)]

CreateChunks(job, text) ==
    IF Kind(job) = "FileProcessing" THEN CreateChunksFile(job, text)
    ELSE CreateChunksUrl(job, text)

Range(seq) == {seq[i] : i \in DOMAIN seq}

\* the error string a failed stage hands to fail_processing: process_file_job
\* wraps every DocumentProcessorService error in one prefix
ErrorText(job, error) ==
    IF Kind(job) = "FileProcessing" THEN "Document processing failed"
    ELSE IF error = "extraction failed"
    THEN (IF Kind(job) = "UrlExtraction" THEN "URL extraction failed"
          ELSE "YouTube extraction failed")
    ELSE error

Failing(w, error) == wk' = [wk EXCEPT ![w].pc = "final", ![w].result = <<"err", error>>]

\* job.start_processing(), then job_repository.update(&job); either failure
\* ends process_job
WStart(w) ==
    /\ wk[w].pc = "start"
    /\ LET r == start_processing(wk[w].job, clock) IN
       IF ~r.ok
       THEN wk' = [wk EXCEPT ![w] = IdleWorker] /\ UNCHANGED jobRows
       ELSE \E dbOk \in BOOLEAN :
            IF dbOk
            THEN /\ jobRows' = RepoUpdate(jobRows, r.job)
                 /\ wk' = [wk EXCEPT ![w].job = r.job,
                                     ![w].pc = NextStage(r.job, "start")]
            ELSE /\ wk' = [wk EXCEPT ![w] = IdleWorker]
                 /\ UNCHANGED jobRows
    /\ UNCHANGED <<varsSplit, varsAux, varsJob, nextJobId, chunkStore, embStore, varsQueue, cl, cn, cons, varsHist>>

\* let _ = job.update_progress(..); let _ = self.job_repository.update(job).await
WProgress(w) ==
    /\ wk[w].pc \in {"p01", "p02", "p03", "p06"}
    /\ LET pm == ProgressAt(wk[w].job, wk[w].pc)
           r  == update_progress(wk[w].job, pm[1], <<pm[2]>>)
       IN  /\ wk' = [wk EXCEPT ![w].job = r.job,
                               ![w].pc = NextStage(r.job, wk[w].pc)]
           /\ \E dbOk \in BOOLEAN :
                jobRows' = IF dbOk THEN RepoUpdate(jobRows, r.job) ELSE jobRows
    /\ UNCHANGED <<varsSplit, varsAux, varsJob, nextJobId, chunkStore, embStore, varsQueue, cl, cn, cons, varsHist>>

\* process_file_job: file_repository.find_by_id(job.file_id())
WFindFile(w) ==
    /\ wk[w].pc = "find_file"
    /\ \E dbOk \in BOOLEAN :
        IF ~dbOk THEN Failing(w, "Failed to find file")
        ELSE IF wk[w].job.file_id \notin FileIds THEN Failing(w, "File not found in database")
        ELSE wk' = [wk EXCEPT ![w].pc = NextStage(wk[w].job, "find_file")]
    /\ UNCHANGED <<varsSplit, varsAux, varsJob, varsRepo, varsQueue, cl, cn, cons, varsHist>>

\* the extractor call, and the chunks built from its text
WExtract(w) ==
    /\ wk[w].pc = "extract"
    /\ \/ Failing(w, ErrorText(wk[w].job, "extraction failed"))
       \/ \E text \in Texts :
            wk' = [wk EXCEPT ![w].chunks = CreateChunks(wk[w].job, text),
                             ![w].pc = NextStage(wk[w].job, "extract")]
    /\ UNCHANGED <<varsSplit, varsAux, varsJob, varsRepo, varsQueue, cl, cn, cons, varsHist>>

\* chunk_repository.save_batch(&chunks)
WSaveChunks(w) ==
    /\ wk[w].pc = "save_chunks"
    /\ \/ Failing(w, ErrorText(wk[w].job, "Failed to save chunks")) /\ UNCHANGED chunkStore
       \/ /\ chunkStore' = chunkStore \cup Range(wk[w].chunks)
          /\ wk' = [wk EXCEPT ![w].pc = NextStage(wk[w].job, "save_chunks")]
    /\ UNCHANGED <<varsSplit, varsAux, varsJob, jobRows, nextJobId, embStore, varsQueue, cl, cn, cons, varsHist>>

\* generate_embeddings_for_chunks: one provider call per batch of chunks, none
\* for an empty list; each chunk is zipped with the vectors of the response,
\* which may hold fewer vectors than the batch has chunks
WEmbed(w) ==
    /\ wk[w].pc = "embed"
    /\ \/ /\ wk[w].chunks # <<>>
          /\ Failing(w, ErrorText(wk[w].job, "Embedding generation failed"))
       \/ \E k \in 0..Len(wk[w].chunks) :
            /\ k >= Len(wk[w].chunks) - 1
            /\ wk' = [wk EXCEPT ![w].embedded = k,
                                ![w].pc = NextStage(wk[w].job, "embed")]
    /\ UNCHANGED <<varsSplit, varsAux, varsJob, varsRepo, varsQueue, cl, cn, cons, varsHist>>

\* embedding_repository.save_batch(&embeddings) and the JobResult
WSaveEmb(w) ==
    /\ wk[w].pc = "save_emb"
    /\ \/ Failing(w, ErrorText(wk[w].job, "Failed to save embeddings")) /\ UNCHANGED embStore
       \/ /\ embStore' = embStore \cup {[chunk_id |-> wk[w].chunks[i].id] : i \in 1..wk[w].embedded}
          /\ wk' = [wk EXCEPT ![w].pc = "final",
                              ![w].result = <<"ok", [chunks_created |-> Len(wk[w].chunks),
                                                     embeddings_created |-> wk[w].embedded,
                                                     processing_time_ms |-> 0,
                                                     extracted_text_length |-> 0]>>]
    /\ UNCHANGED <<varsSplit, varsAux, varsJob, jobRows, nextJobId, chunkStore, varsQueue, cl, cn, cons, varsHist>>

\* "Save final job state": job_repository.update(&job), an error only logged
FinalWrite(rows, job) == {rows, RepoUpdate(rows, job)}

\* job.complete_processing(result) or job.fail_processing(error), then the
\* final job_repository.update(&job)
WFinal(w) ==
    /\ wk[w].pc = "final"
    /\ LET res == wk[w].result
           r   == IF res[1] = "ok" THEN complete_processing(wk[w].job, res[2], clock)
                  ELSE fail_processing(wk[w].job, res[2], clock)
       IN  jobRows' \in FinalWrite(jobRows, r.job)
    /\ wk' = [wk EXCEPT ![w] = IdleWorker]
    /\ UNCHANGED <<varsSplit, varsAux, varsJob, nextJobId, chunkStore, embStore, varsQueue, cl, cn, cons, varsHist>>

-----------------------------------------------------------------------------
(* SpecQueue: the queue under concurrent callers of its API *)

\* a caller of enqueue with a job it has just constructed
PEnqueue(c) ==
    /\ cl[c].pc = "idle"
    /\ nextJobId <= MaxJobs
    /\ \E f \in FileIds :
        cl' = [cl EXCEPT ![c] = [IdleClient EXCEPT !.pc = "enq_insert",
                                                   !.job = NewJob(nextJobId, f, FileProcessing, clock)]]
    /\ nextJobId' = nextJobId + 1
    /\ UNCHANGED <<varsSplit, varsAux, varsJob, jobRows, chunkStore, embStore, varsQueue,
                   cn, cons, wk, varsHist>>

\* worker_loop: process_job(v) returns and the loop calls recv again
WHandled(w) ==
    /\ wk[w].pc = "start"
    /\ wk' = [wk EXCEPT ![w] = IdleWorker]
    /\ UNCHANGED <<varsSplit, varsAux, varsJob, varsRepo, varsQueue, cl, cn, cons, varsHist>>

NextQueue ==
    \/ \E c \in Producers : PEnqueue(c) \/ EnqInsert(c) \/ EnqSend(c) \/ EnqStats(c)
    \/ DeqLock
    \/ DeqRecv
    \/ TryDequeue
    \/ DeqRemove
    \/ DeqStats
    \/ RemoveJob
    \/ HealthCheck
    \/ FwdLock
    \/ FwdRecv
    \/ FwdSend
    \/ \E w \in Workers : WLock(w) \/ WRecv(w) \/ WHandled(w)

InitSpecQueue == InitJobIdle /\ InitRepo /\ InitQueue /\ InitProc /\ InitHist /\ InitSplitIdle /\ InitAuxIdle

SpecQueue == InitSpecQueue /\ [][NextQueue]_vars

-----------------------------------------------------------------------------
(* Claims about the queue *)

DeliveredTo(who) == {i \in DOMAIN delivered : delivered[i][2] \in who}

\* C2: no job is handed out twice, to the same worker or to two workers
C2_DeliveredOnce ==
    \A i, j \in DOMAIN delivered :
        delivered[i][1] = delivered[j][1] => i = j

C2_Witness ==
    /\ \E i \in DeliveredTo({"w1"}), j \in DeliveredTo({"w2"}) : TRUE
    /\ mainChan = <<>> /\ bgChan = <<>>

\* C8: every report of health_check has
\* total_enqueued - total_dequeued >= queue_size
C8_StatsCoverSize ==
    HealthReport.total_enqueued - HealthReport.total_dequeued >= HealthReport.queue_size

\* C9: a job that was handed to a worker is no longer an entry of the queue:
\* size does not count it and remove_job with its id returns false
C9_HandedOutIsNotPending ==
    \A i \in DeliveredTo(Workers) : delivered[i][1] \notin pending_jobs

\* C10: a job for which remove_job returned true is never handed out afterwards
C10_RemovedIsNeverDelivered == lateDelivery = {}

\* C14: with a single producer the workers are handed the jobs in the order
\* of their enqueues (the producer's job ids grow with each enqueue)
C14_Fifo ==
    \A i, j \in DeliveredTo(Workers) : i < j => delivered[i][1] < delivered[j][1]

\* two jobs were enqueued one after the other and both went to workers
C14_Witness ==
    /\ Len(delivered) = 2
    /\ DeliveredTo(Workers) = {1, 2}
    /\ delivered[1][1] = 1 /\ delivered[2][1] = 2

\* C13: remove_job with an id the queue does not hold answers false and leaves
\* the pending entries (and so size), both channels, what was delivered and
\* the statistics as they were
C13_RemoveMissingIsNoop ==
    [][\A id \in JobIds :
        (RemoveJobOf(id) /\ id \notin pending_jobs) =>
            /\ cn'.ret = "false"
            /\ UNCHANGED <<pending_jobs, stats, mainChan, bgChan, delivered, removedOk>>]_vars

\* remove_job was answered false while the queue held an entry, jobs in both
\* channels and non-zero statistics
C13_Witness ==
    /\ cn.ret = "false"
    /\ pending_jobs # {}
    /\ mainChan # <<>> /\ bgChan # <<>>
    /\ stats.total_enqueued > 0

-----------------------------------------------------------------------------
(* Spec: the use cases, the queue pair and the background workers together *)

ClientStepOf(c, cap) ==
    \/ QFindFile(c)
    \/ QCheckOf(c, cap)
    \/ QSave(c)
    \/ EnqInsert(c)
    \/ EnqSend(c)
    \/ EnqStats(c)

ClientStep(c) == ClientStepOf(c, MaxJobs)

CancelStep ==
    \/ CFind
    \/ CRemove
    \/ CUpdate

ForwarderStep ==
    \/ FwdLock
    \/ FwdRecv
    \/ FwdSend

WorkerStep(w) ==
    \/ WLock(w)
    \/ WRecv(w)
    \/ WStart(w)
    \/ WProgress(w)
    \/ WFindFile(w)
    \/ WExtract(w)
    \/ WSaveChunks(w)
    \/ WEmbed(w)
    \/ WSaveEmb(w)
    \/ WFinal(w)

\* one requester, the canceller, the forwarder task and one worker
NextSpec ==
    \/ \E c \in Producers : ClientStepOf(c, MaxQueued)
    \/ CancelStep
    \/ ForwarderStep
    \/ \E w \in Processors : WorkerStep(w)
    \/ HealthCheck

InitSpec == InitJobIdle /\ InitRepo /\ InitQueue /\ InitProc /\ InitHist /\ InitSplitIdle /\ InitAuxIdle

Spec == InitSpec /\ [][NextSpec]_vars

\* every started request runs to its return, the forwarder task and the
\* workers are scheduled fairly; each of these steps moves its process on
FairSpec ==
    /\ Spec
    /\ \A c \in Producers :
         WF_(cl[c].pc)(QCheck(c) \/ QSave(c) \/ EnqInsert(c) \/ EnqSend(c) \/ EnqStats(c))
    /\ WF_(cn.pc)(CRemove \/ CUpdate)
    /\ WF_(fwd.pc)(ForwarderStep)
    /\ \A w \in Processors : WF_(wk[w].pc)(WorkerStep(w))

\* concurrent requesters, the forwarder task and the workers taking the jobs
NextRace ==
    \/ \E c \in Clients : ClientStep(c)
    \/ ForwarderStep
    \/ \E w \in Workers : WLock(w) \/ WRecv(w) \/ WHandled(w)

InitSpecRace == InitJobIdle /\ InitRepo /\ InitQueue /\ InitProc /\ InitHist /\ InitSplitIdle /\ InitAuxIdle

SpecRace == InitSpecRace /\ [][NextRace]_vars

\* one requester asking for any of the three job types, the forwarder task
\* and one worker
NextWork ==
    \/ \E c \in Producers :
         \/ QFindFileOf(c, JobTypes)
         \/ QCheckOf(c, MaxQueued)
         \/ QSave(c)
         \/ EnqInsert(c)
         \/ EnqSend(c)
         \/ EnqStats(c)
    \/ ForwarderStep
    \/ \E w \in Processors : WorkerStep(w)

InitSpecWork == InitJobIdle /\ InitRepo /\ InitQueue /\ InitProc /\ InitHist /\ InitSplitIdle /\ InitAuxIdle

SpecWork == InitSpecWork /\ [][NextWork]_vars

\* the job type each concurrent requester asks for
TypesOf(c) == IF c \in Producers THEN {FileProcessing} ELSE {UrlExtraction(u) : u \in Urls}

\* a requester of file processing and a requester of URL extraction running
\* concurrently, the forwarder task and one worker running process_job
NextChunks ==
    \/ \E c \in Clients :
         \/ QFindFileOf(c, TypesOf(c))
         \/ QCheck(c)
         \/ QSave(c)
         \/ EnqInsert(c)
         \/ EnqSend(c)
         \/ EnqStats(c)
    \/ ForwarderStep
    \/ \E w \in Processors : WorkerStep(w)

InitSpecChunks == InitJobIdle /\ InitRepo /\ InitQueue /\ InitProc /\ InitHist /\ InitSplitIdle /\ InitAuxIdle

SpecChunks == InitSpecChunks /\ [][NextChunks]_vars

-----------------------------------------------------------------------------
(* Claims about the system *)

ActiveRowsOf(f) == {id \in DOMAIN jobRows : jobRows[id].file_id = f /\ RowIsActive(jobRows[id])}

\* C1: at most one persisted job that is Pending or Processing references any
\* file, also when requests for the same file run concurrently
C1_AtMostOneActive == \A f \in FileIds : Cardinality(ActiveRowsOf(f)) <= 1

\* C3: once cancel has returned success for a job that a worker was processing,
\* the worker never writes Completed over the job's durable record
C3_CancelledNeverCompleted ==
    \A x \in cancelledOk : x.held => jobRows[x.id].status # "completed"

\* C4: a worker that receives a job for which cancel has already returned
\* success discards it: it runs no extraction and saves nothing
C4_StaleJobDiscarded ==
    \A w \in Workers : wk[w].stale => wk[w].pc \in {"start", "idle"}

\* process_job has returned for the job: it was handed to a worker and no
\* worker holds it any more
Finished(id) ==
    /\ \E i \in DeliveredTo(Workers) : delivered[i][1] = id
    /\ \A w \in Workers : wk[w].job = None \/ wk[w].job.id # id

\* queue_processing_job has returned Ok for the job
Accepted(id) ==
    /\ id \in DOMAIN jobRows
    /\ \A c \in Clients : cl[c].job = None \/ cl[c].job.id # id

\* C7: every accepted job eventually has a durable terminal status
C7_EventuallyTerminal ==
    \A id \in JobIds : Accepted(id) ~> (id \in DOMAIN jobRows /\ RowIsTerminal(jobRows[id]))

\* the job was never handed to a worker
NeverPickedUp(id) == \A i \in DeliveredTo(Workers) : delivered[i][1] # id

\* C11: after cancel has returned success for a Pending job that no worker has
\* picked up, the durable record is Failed("Cancelled by user") with
\* completed_at set, a terminal record
C11_CancelPendingPersists ==
    \A x \in cancelledOk :
        NeverPickedUp(x.id) =>
            /\ RowIsCancelled(jobRows[x.id])
            /\ jobRows[x.id].completed_at # None
            /\ RowIsTerminal(jobRows[x.id])

\* C12: a second cancel of a job whose cancel has already returned success
\* reports JobNotCancellable: it is refused by the is_active test or, having
\* passed it, by job.cancel()
C12_SecondCancelRefused ==
    (cn.pc \in {"remove", "update"} /\ \E x \in cancelledOk : x.id = cn.job_id)
        => ~cancel(cn.job, clock).ok

\* C15: the progress values a worker run writes to the job store never
\* decrease and stay within [0, 1], for each of the three job types
C15_ProgressMonotone ==
    [][/\ \A id \in DOMAIN jobRows : jobRows'[id].progress >= jobRows[id].progress
       /\ \A id \in DOMAIN jobRows' : jobRows'[id].progress \in 0..10]_jobRows

\* a worker run has written 0.1, 0.3 and 0.6 for a YouTube job and holds the
\* job at its last stage
C15_Witness ==
    \E id \in DOMAIN jobRows, w \in Processors :
        /\ jobRows[id].job_type = "youtube_extraction"
        /\ jobRows[id].progress = 6
        /\ wk[w].pc = "final" /\ wk[w].job.id = id

\* C17: find_by_id returns, for every stored job, a job with the id, file_id,
\* job type, status, progress, timestamps, message and result last written
C17_RoundTrip ==
    \A id \in DOMAIN jobRows :
        LET found == RepoFindById(jobRows, id, clock)
            row   == jobRows[id]
        IN  /\ found # None
            /\ found[1].ok
            /\ found[1].job.id = id
            /\ found[1].job.file_id = row.file_id
            /\ job_type_str(found[1].job.job_type) = row.job_type
            /\ status_to_string(found[1].job.status) = row.status
            /\ found[1].job.progress = row.progress
            /\ found[1].job.started_at = row.started_at
            /\ found[1].job.completed_at = row.completed_at
            /\ found[1].job.result_summary = row.result_summary

-----------------------------------------------------------------------------
(* RTSplitter: split_text, recursive_split and split_by_length.  A text is  *)
(* a sequence of characters; `Eacute` stands for a character that takes two *)
(* bytes in UTF-8.                                                          *)

MaxLen   == 4       \* characters of a text handed to split_text
MaxChunk == 3       \* largest max_chunk_size

Eacute == "U+00E9"
Chars  == {"a", "b", " ", "\n", Eacute}

\* RTSplitter::default().separators
separators == << <<"\n", "\n">>, <<"\n">>, <<" ">>, <<>> >>

\* str::len: the length in bytes
ByteLen(text) == Len(text) + Cardinality({i \in DOMAIN text : text[i] = Eacute})

\* Vec<String>::join("")
RECURSIVE Concat(_)
Concat(chunks) ==
    IF chunks = <<>> THEN <<>> ELSE Head(chunks) \o Concat(Tail(chunks))

\* str::split_inclusive(separator): every piece keeps the separator that ends it
RECURSIVE StrSplitInclusive(_, _)
StrSplitInclusive(text, sep) ==
    LET hits == {i \in 1..(Len(text) - Len(sep) + 1) :
                    SubSeq(text, i, i + Len(sep) - 1) = sep}
    IN  IF hits = {} THEN <<text>>
        ELSE LET i == CHOOSE h \in hits : \A k \in hits : h <= k
             IN  <<SubSeq(text, 1, i + Len(sep) - 1)>>
                 \o StrSplitInclusive(SubSeq(text, i + Len(sep), Len(text)), sep)

\* str::split(separator): the pieces between the non-overlapping occurrences
\* of the separator, taken from the left
RECURSIVE StrSplit(_, _)
StrSplit(text, sep) ==
    LET hits == {i \in 1..(Len(text) - Len(sep) + 1) :
                    SubSeq(text, i, i + Len(sep) - 1) = sep}
    IN  IF hits = {} THEN <<text>>
        ELSE LET i == CHOOSE h \in hits : \A k \in hits : h <= k
             IN  <<SubSeq(text, 1, i - 1)>>
                 \o StrSplit(SubSeq(text, i + Len(sep), Len(text)), sep)

\* split_by_length, for max_chunk_size >= 1: slices of max_chunk_size
\* characters, the last one possibly shorter
RECURSIVE split_by_length(_, _)
split_by_length(text, max_chunk_size) ==
    IF text = <<>> THEN <<>>
    ELSE IF Len(text) <= max_chunk_size THEN <<text>>
    ELSE <<SubSeq(text, 1, max_chunk_size)>>
         \o split_by_length(SubSeq(text, max_chunk_size + 1, Len(text)), max_chunk_size)

RECURSIVE recursive_split(_, _, _)
RECURSIVE Accumulate(_, _, _, _, _)

\* the loop of recursive_split over `parts`, with the chunks pushed so far and
\* current_chunk, and the push after the loop
Accumulate(parts, chunks, current_chunk, max_chunk_size, separator_index) ==
    IF parts = <<>>
    THEN IF current_chunk # <<>> THEN Append(chunks, current_chunk) ELSE chunks
    ELSE
        LET part == Head(parts)
            part_with_sep == IF current_chunk = <<>> THEN part
                             ELSE current_chunk \o separators[separator_index] \o part
        IN  IF ByteLen(part_with_sep) <= max_chunk_size
            THEN Accumulate(Tail(parts), chunks, part_with_sep,
                            max_chunk_size, separator_index)
            ELSE LET pushed == IF current_chunk # <<>> THEN Append(chunks, current_chunk)
                               ELSE chunks
                 IN  IF ByteLen(part) > max_chunk_size
                     THEN Accumulate(Tail(parts),
                                     pushed \o recursive_split(part, max_chunk_size,
                                                               separator_index + 1),
                                     <<>>, max_chunk_size, separator_index)
                     ELSE Accumulate(Tail(parts), pushed, part,
                                     max_chunk_size, separator_index)

\* recursive_split; separator_index counts from 1
recursive_split(text, max_chunk_size, separator_index) ==
    IF ByteLen(text) <= max_chunk_size THEN <<text>>
    ELSE IF separator_index > Len(separators) THEN split_by_length(text, max_chunk_size)
    ELSE IF separators[separator_index] = <<>> THEN split_by_length(text, max_chunk_size)
    ELSE LET parts == StrSplit(text, separators[separator_index])
         IN  IF Len(parts) = 1
             THEN recursive_split(text, max_chunk_size, separator_index + 1)
             ELSE Accumulate(parts, <<>>, <<>>, max_chunk_size, separator_index)

\* a splitter that returns slices of one character more than asked
split_textWide(text, max_chunk_size) ==
    IF ByteLen(text) <= max_chunk_size THEN <<text>>
    ELSE split_by_length(text, max_chunk_size + 1)

\* RecursiveTextSplitter::split_text
split_text(text, max_chunk_size) ==
    IF ByteLen(text) <= max_chunk_size THEN <<text>>
    ELSE recursive_split(text, max_chunk_size, 1)

SplitInputs == UNION {[1..n -> Chars] : n \in 0..MaxLen}

InitSpecSplit ==
    /\ InitJobIdle /\ InitRepo /\ InitQueue /\ InitProc /\ InitHist /\ InitAuxIdle
    /\ stext \in SplitInputs
    /\ smax \in 1..MaxChunk
    /\ schunks = None

\* a caller of split_text
SplitText ==
    /\ schunks = None
    /\ schunks' = <<split_text(stext, smax)>>
    /\ UNCHANGED <<stext, smax, varsAux, varsJob, varsRepo, varsQueue, varsProc, varsHist>>

NextSplit == SplitText

SpecSplit == InitSpecSplit /\ [][NextSplit]_vars

\* C18: the chunks split_text returns, concatenated in order, are the text
C18_ConcatIsText == schunks # None => Concat(schunks[1]) = stext

\* C19: every chunk split_text returns has at most max_chunk_size characters
C19_ChunkFits == schunks # None => \A i \in DOMAIN schunks[1] : Len(schunks[1][i]) <= smax

\* a text of several separator levels was split into more than two chunks
C19_Witness ==
    /\ schunks # None
    /\ Len(schunks[1]) > 2
    /\ \E i, j \in DOMAIN stext : stext[i] = " " /\ stext[j] = "\n"

\* the characters that occur in no separator
Letters == {"a", "b", Eacute}

IsWord(t) == t # <<>> /\ \A i \in DOMAIN t : t[i] \in Letters

\* the ways to read a text as two words joined by one separator
TwoWords(text) ==
    {w \in {[first  |-> SubSeq(text, 1, i),
             sep    |-> separators[k],
             second |-> SubSeq(text, i + Len(separators[k]) + 1, Len(text))] :
               i \in DOMAIN text, k \in 1..3} :
        /\ IsWord(w.first) /\ IsWord(w.second)
        /\ text = w.first \o w.sep \o w.second}

S5Paragraphs ==
    <<"a", "a", "a", "\n", "\n", "b", "b", "b", "\n", "\n", "c", "c", "c">>

S5Alphabet == <<"a", "b", "c", "d", "e", "f", "g", "h", "i", "j">>

C21_ShortTextUnchanged ==
    (schunks # None /\ Len(stext) <= smax) => schunks[1] = <<stext>>

\* the chunks a job's worker run has persisted
ChunksOfJob(id) == {c \in chunkStore : c.id[1] = id}

\* C22: the chunks persisted for one job carry the indices 0, 1, ..., n-1,
\* n being their number: pieces below the floor take no index
C22_GaplessIndices ==
    \A id \in JobIds :
        {c.index : c \in ChunksOfJob(id)} = 0..(Cardinality(ChunksOfJob(id)) - 1)

\* C23: no two persisted chunks of one file share an index
C23_IndexUniquePerFile ==
    \A c, d \in chunkStore : (c.file_id = d.file_id /\ c.index = d.index) => c = d

\* the chunks that the persisted embeddings of a job reference
EmbeddedChunksOfJob(id) == {e.chunk_id : e \in {x \in embStore : x.chunk_id[1] = id}}

\* C24: a job that ends Completed reports embeddings_created equal to
\* chunks_created, and its persisted embeddings reference its persisted chunks
\* one for one, whatever the embedding provider answered for a batch
C24_EmbeddingPerChunk ==
    \A id \in DOMAIN jobRows :
        jobRows[id].status = "completed" =>
            /\ jobRows[id].result_summary[1].embeddings_created
                 = jobRows[id].result_summary[1].chunks_created
            /\ EmbeddedChunksOfJob(id) = {c.id : c \in ChunksOfJob(id)}

-----------------------------------------------------------------------------
(* SpecEmbed: InferenceClient::send_embed_request, its retry loop *)

MaxRetries == 3     \* largest EmbeddingsClientConfig.max_retries

\* EmbeddingsClientConfig: max_retries, and backoff_factor as a fraction
\* (1.5 in EmbeddingsClientConfig::default)
Configs ==
    {[max_retries |-> m, backoff_factor |-> f] :
        m \in 0..MaxRetries, f \in {[num |-> 3, den |-> 2], [num |-> 2, den |-> 1]}}

\* what execute_embed_request returns: the vectors, RequestError for a failed
\* send, ApiError for a non-success HTTP status, ParseError for a body that is
\* not an array of vectors
EmbedOutcomes == {"Ok", "RequestError", "ApiError", "ParseError"}

RECURSIVE Pow(_, _)
Pow(b, e) == IF e = 0 THEN 1 ELSE b * Pow(b, e - 1)

\* (backoff_factor.powi(attempts - 1) * 1000.0) as u64
backoff_time(config, attempts) ==
    (Pow(config.backoff_factor.num, attempts - 1) * 1000)
        \div Pow(config.backoff_factor.den, attempts - 1)

InitSpecEmbed ==
    /\ InitJobIdle /\ InitRepo /\ InitQueue /\ InitProc /\ InitHist /\ InitSplitIdle
    /\ InitSearchIdle /\ InitUpload /\ InitExtIdle
    /\ \E c \in Configs : em = [IdleEmbed EXCEPT !.pc = "execute", !.config = c]

\* attempts += 1; execute_embed_request; Ok returns, an Err returns once
\* attempts > max_retries and otherwise leads to the sleep
ExecuteEmbedRequest ==
    /\ em.pc = "execute"
    /\ \E result \in EmbedOutcomes :
        LET attempts == em.attempts + 1 IN
        IF result = "Ok"
        THEN em' = [em EXCEPT !.attempts = attempts, !.pc = "done", !.ret = "Ok"]
        ELSE IF attempts > em.config.max_retries
        THEN em' = [em EXCEPT !.attempts = attempts, !.errors = Append(@, result),
                              !.pc = "done", !.ret = result]
        ELSE em' = [em EXCEPT !.attempts = attempts, !.errors = Append(@, result),
                              !.pc = "sleep"]
    /\ UNCHANGED <<varsSplit, varsSearch, varsUpload, varsExt, varsJob, varsRepo, varsQueue, varsProc, varsHist>>

\* tokio::time::sleep(backoff_time), then the next turn of the loop
BackoffSleep ==
    /\ em.pc = "sleep"
    /\ em' = [em EXCEPT !.slept = Append(@, backoff_time(em.config, em.attempts)),
                        !.pc = "execute"]
    /\ UNCHANGED <<varsSplit, varsSearch, varsUpload, varsExt, varsJob, varsRepo, varsQueue, varsProc, varsHist>>

NextEmbed == ExecuteEmbedRequest \/ BackoffSleep

SpecEmbed == InitSpecEmbed /\ [][NextEmbed]_vars

\* C25: one embedding request makes at most max_retries attempts in total,
\* sleeps 1000 * backoff_factor^(attempt-1) milliseconds after a failed attempt
\* before the next one, and returns the last error when the attempts are used up
C25_AtMostMaxRetriesAttempts ==
    /\ em.config.max_retries >= 1 => em.attempts <= em.config.max_retries
    /\ \A i \in DOMAIN em.slept :
          em.slept[i] * Pow(em.config.backoff_factor.den, i - 1)
              <= 1000 * Pow(em.config.backoff_factor.num, i - 1)
          /\ (em.slept[i] + 1) * Pow(em.config.backoff_factor.den, i - 1)
              > 1000 * Pow(em.config.backoff_factor.num, i - 1)
    /\ (em.pc = "done" /\ em.ret # "Ok") => em.ret = em.errors[Len(em.errors)]

\* C26: an unparseable response or an error status of the service ends the
\* request after that one attempt; only a failed send is tried again
C26_OnlyTransportRetried ==
    \A i \in DOMAIN em.errors :
        em.errors[i] \in {"ParseError", "ApiError"} => (i = Len(em.errors) /\ em.pc = "done")

-----------------------------------------------------------------------------
(* SpecSearch: SearchContentUseCase::execute over SearchService and the      *)
(* repositories' similarity searches                                         *)

ChunkIds     == {"k1", "k2"}
EmbeddingIds == {"e1", "e2"}
SearchFiles  == {"f1", "f2"}

\* pgvector vectors of whole norm; <<7>> has another dimension
Vectors == {<<1, 0>>, <<3, 4>>, <<0, 0>>}
QueryVectors == {<<1, 0>>, <<4, 3>>, <<7>>}

\* similarity scores are counted in 25ths: 15 is 0.6
ScoreUnit == 25

RECURSIVE Dot(_, _)
Dot(a, b) == IF a = <<>> THEN 0 ELSE Head(a) * Head(b) + Dot(Tail(a), Tail(b))

\* sum of squares, square-rooted
Norm(a) == CHOOSE n \in 0..ScoreUnit : n * n = Dot(a, a)

calculate_cosine_similarity(a, b) ==
    IF Len(a) # Len(b) THEN 0
    ELSE IF Norm(a) = 0 \/ Norm(b) = 0 THEN 0
    ELSE (Dot(a, b) * ScoreUnit) \div (Norm(a) * Norm(b))

\* ContentChunk::from(ContentChunkModel): ContentChunk::new gives the loaded
\* chunk a new id
ChunkFromModel(row) == [id |-> FreshUuid, file_id |-> row.file_id, index |-> row.index]

\* PostgresChunkRepository::find_by_id
ChunkFindById(chunks, chunk_id) ==
    IF \E c \in chunks : c.id = chunk_id
    THEN <<ChunkFromModel(CHOOSE c \in chunks : c.id = chunk_id)>>
    ELSE None

\* the rows the query of similarity_search ranges over, and those of
\* similarity_search_by_file, which joins content_chunks on the chunk id
Candidates(embs, chunks, file_id_filter) ==
    {e \in embs :
        /\ e.embedding # None
        /\ file_id_filter # None =>
              \E c \in chunks : c.id = e.chunk_id /\ c.file_id = file_id_filter[1]}

Min(a, b) == IF a <= b THEN a ELSE b

\* .limit(limit) without an ORDER BY: that many of the rows, in an order the
\* database chooses
Loads(rows, limit) ==
    LET m == Min(limit, Cardinality(rows)) IN
    {l \in [1..m -> rows] : \A i, j \in 1..m : l[i] = l[j] => i = j}

\* the place results.sort_by(|a, b| b.score.partial_cmp(&a.score)) gives x in
\* a list that is already in order: behind every entry that scores as much
RECURSIVE InsertDescending(_, _)
InsertDescending(sorted, x) ==
    IF sorted = <<>> THEN <<x>>
    ELSE IF Head(sorted).similarity_score >= x.similarity_score
    THEN <<Head(sorted)>> \o InsertDescending(Tail(sorted), x)
    ELSE <<x>> \o sorted

RECURSIVE SortDescending(_)
SortDescending(results) ==
    IF results = <<>> THEN <<>>
    ELSE InsertDescending(SortDescending(SubSeq(results, 1, Len(results) - 1)),
                          results[Len(results)])

\* the loop of similarity_search over the loaded rows: score, threshold test
RECURSIVE Scored(_, _, _)
Scored(models, query_vector, similarity_threshold) ==
    IF models = <<>> THEN <<>>
    ELSE LET model == Head(models)
             similarity_score == calculate_cosine_similarity(query_vector, model.embedding)
             rest == Scored(Tail(models), query_vector, similarity_threshold)
         IN  IF similarity_threshold # None /\ similarity_score < similarity_threshold[1]
             THEN rest
             ELSE <<[embedding |-> model.id, similarity_score |-> similarity_score,
                     chunk_id |-> model.chunk_id]>> \o rest

\* similarity_search and similarity_search_by_file, given the rows loaded
similarity_search(models, query_vector, similarity_threshold) ==
    SortDescending(Scored(models, query_vector, similarity_threshold))

\* the chunk each embedding row references
ChunkOf(e) == IF e = "e1" THEN "k1" ELSE "k2"

\* the embeddings tables and content_chunks tables a search may find
EmbeddingTables ==
    {{[id |-> e, chunk_id |-> ChunkOf(e), embedding |-> v[e]] : e \in D} :
        D \in SUBSET EmbeddingIds, v \in [EmbeddingIds -> Vectors \cup {None}]}

ChunkTables ==
    {{[id |-> k, file_id |-> f[k], index |-> 0] : k \in D} :
        D \in SUBSET ChunkIds, f \in [ChunkIds -> SearchFiles]}

Queries    == {<<>>, <<" ">>, <<"c", "a", "t">>}
Limits     == {None, <<-1>>, <<0>>, <<1>>, <<100>>, <<101>>}
Thresholds == {None, <<15>>}

SearchRequests ==
    [query : Queries, limit : Limits, similarity_threshold : Thresholds,
     file_id_filter : {None, <<"f1">>}]

\* str::trim().is_empty()
TrimIsEmpty(query) == \A i \in DOMAIN query : query[i] \in {" ", "\n"}

\* a validation that puts no upper bound on the limit
ValidateNoUpperBound(request) ==
    IF TrimIsEmpty(request.query) THEN "Query cannot be empty"
    ELSE LET limit == IF request.limit = None THEN 10 ELSE request.limit[1] IN
         IF limit <= 0 THEN "Limit must be between 1 and 100" ELSE "ok"

\* the input validation of SearchContentUseCase::execute
Validate(request) ==
    IF TrimIsEmpty(request.query) THEN "Query cannot be empty"
    ELSE LET limit == IF request.limit = None THEN 10 ELSE request.limit[1] IN
         IF limit <= 0 \/ limit > 100 THEN "Limit must be between 1 and 100" ELSE "ok"

InitSpecSearch ==
    /\ InitJobIdle /\ InitQueue /\ InitProc /\ InitHist /\ InitSplitIdle /\ InitEmbedIdle
    /\ InitUpload /\ InitExtIdle
    /\ jobRows = <<>>
    /\ nextJobId = 1
    /\ chunkStore \in ChunkTables
    /\ embStore \in EmbeddingTables
    /\ \E request \in SearchRequests :
         sr = [IdleSearch EXCEPT !.pc = "validate", !.request = request]

SearchLeaves == <<varsSplit, varsEmbed, varsUpload, varsExt, varsJob, varsRepo, varsQueue, varsProc, varsHist>>

SearchReturns(ret) == sr' = [sr EXCEPT !.pc = "done", !.ret = ret]

\* SearchContentUseCase::execute up to the call of search_content
SearchValidate ==
    /\ sr.pc = "validate"
    /\ IF Validate(sr.request) # "ok"
       THEN SearchReturns("ValidationError")
       ELSE sr' = [sr EXCEPT !.pc = "embed",
                             !.limit = IF sr.request.limit = None THEN 10
                                       ELSE sr.request.limit[1]]
    /\ UNCHANGED SearchLeaves

\* search_content: embedding_provider.generate_embedding(query); execute maps
\* every error of search_content to RepositoryError
SearchEmbed ==
    /\ sr.pc = "embed"
    /\ \/ sr' = [sr EXCEPT !.pc = "done", !.ret = "RepositoryError",
                           !.calls = Append(@, "generate_embedding")]
       \/ \E v \in QueryVectors :
            sr' = [sr EXCEPT !.pc = "similarity", !.query_vector = <<v>>,
                             !.calls = Append(@, "generate_embedding")]
    /\ UNCHANGED SearchLeaves

\* search_content: similarity_search_by_file with a file filter, otherwise
\* similarity_search
SearchSimilarity ==
    /\ sr.pc = "similarity"
    /\ LET call == IF sr.request.file_id_filter # None THEN "similarity_search_by_file"
                   ELSE "similarity_search"
       IN  \/ sr' = [sr EXCEPT !.pc = "done", !.ret = "RepositoryError",
                               !.calls = Append(@, call)]
           \/ \E models \in Loads(Candidates(embStore, chunkStore, sr.request.file_id_filter),
                                  sr.limit) :
                sr' = [sr EXCEPT !.pc = "resolve",
                                 !.loaded = models,
                                 !.hits = similarity_search(models, sr.query_vector[1],
                                                            sr.request.similarity_threshold),
                                 !.calls = Append(@, call)]
    /\ UNCHANGED SearchLeaves

\* search_content: chunk_repository.find_by_id for the next hit; the hit is
\* pushed only for Ok(Some(chunk))
SearchResolve ==
    /\ sr.pc = "resolve"
    /\ sr.next <= Len(sr.hits)
    /\ LET hit == sr.hits[sr.next] IN
       \E dbOk \in BOOLEAN :
         LET found == IF dbOk THEN ChunkFindById(chunkStore, hit.chunk_id) ELSE None IN
         sr' = [sr EXCEPT !.next = @ + 1,
                          !.calls = Append(@, "find_by_id"),
                          !.results = IF found = None THEN @
                                      ELSE Append(@, [chunk |-> found[1],
                                                      similarity_score |-> hit.similarity_score,
                                                      file_id |-> hit.chunk_id])]
    /\ UNCHANGED SearchLeaves

\* the SearchContentResponse
SearchRespond ==
    /\ sr.pc = "resolve"
    /\ sr.next > Len(sr.hits)
    /\ SearchReturns("Ok")
    /\ UNCHANGED SearchLeaves

NextSearch ==
    \/ SearchValidate
    \/ SearchEmbed
    \/ SearchSimilarity
    \/ SearchResolve
    \/ SearchRespond

SpecSearch == InitSpecSearch /\ [][NextSearch]_vars

\* the rows of the store that qualify for the search in progress, with their
\* scores
Qualifying ==
    {e \in Candidates(embStore, chunkStore, sr.request.file_id_filter) :
        sr.request.similarity_threshold # None =>
            calculate_cosine_similarity(sr.query_vector[1], e.embedding)
                >= sr.request.similarity_threshold[1]}

HitIds == {sr.hits[i].embedding : i \in DOMAIN sr.hits}

\* C27: what similarity_search and similarity_search_by_file return has at
\* most limit entries, each at or above the threshold, in descending order of
\* similarity, and these are the highest-scoring qualifying embeddings of the
\* store (of the file, for the by-file variant)
C27_TopHits ==
    sr.pc = "resolve" =>
        /\ Len(sr.hits) <= sr.limit
        /\ \A i \in DOMAIN sr.hits :
              sr.request.similarity_threshold # None =>
                  sr.hits[i].similarity_score >= sr.request.similarity_threshold[1]
        /\ \A i, j \in DOMAIN sr.hits :
              i < j => sr.hits[i].similarity_score >= sr.hits[j].similarity_score
        /\ Len(sr.hits) = Min(sr.limit, Cardinality(Qualifying))
        /\ \A q \in Qualifying : q.id \notin HitIds =>
              \A i \in DOMAIN sr.hits :
                  calculate_cosine_similarity(sr.query_vector[1], q.embedding)
                      <= sr.hits[i].similarity_score

RECURSIVE IsSubsequence(_, _)
IsSubsequence(a, b) ==
    IF a = <<>> THEN TRUE
    ELSE IF b = <<>> THEN FALSE
    ELSE IF Head(a) = Head(b) THEN IsSubsequence(Tail(a), Tail(b))
    ELSE IsSubsequence(a, Tail(b))

\* C28: search returns the hits whose chunk resolves, in the order of the
\* similarity search, without the hits whose chunk is missing, and the file_id
\* of each result is the file_id of the chunk it carries
C28_ResultsFollowHits ==
    (sr.pc = "done" /\ sr.ret = "Ok") =>
        /\ IsSubsequence([i \in DOMAIN sr.results |-> sr.results[i].similarity_score],
                         [i \in DOMAIN sr.hits |-> sr.hits[i].similarity_score])
        /\ Len(sr.results)
             <= Cardinality({i \in DOMAIN sr.hits :
                                \E c \in chunkStore : c.id = sr.hits[i].chunk_id})
        /\ \A i \in DOMAIN sr.results : sr.results[i].file_id = sr.results[i].chunk.file_id

\* C29: a query that is empty after trimming and a limit outside 1..100 are
\* rejected with ValidationError before any embedding or repository call;
\* limit = 101 is rejected and limit = 100 is accepted
C29_ValidationFirst ==
    sr.pc \notin {"idle", "validate"} =>
        LET blank == \A i \in DOMAIN sr.request.query : sr.request.query[i] \in {" ", "\n"}
            out   == sr.request.limit # None
                       /\ (sr.request.limit[1] < 1 \/ sr.request.limit[1] > 100)
        IN  /\ (blank \/ out) => (sr.ret = "ValidationError" /\ sr.calls = <<>>)
            /\ (~blank /\ ~out) => sr.ret # "ValidationError"

\* a search for "cat" with limit 101 was rejected
C29_Witness ==
    /\ sr.pc = "done"
    /\ sr.ret = "ValidationError"
    /\ sr.calls = <<>>
    /\ sr.request.query = <<"c", "a", "t">>
    /\ sr.request.limit = <<101>>

-----------------------------------------------------------------------------
(* SpecUpload: concurrent callers of UploadFileUseCase::execute *)

MaxUploads == 3     \* blobs and File entities created in one behaviour

FileNames == {" ", "a.txt", "b.txt"}
FileDatas == {"", "hello", "world"}

\* FileHash::from_bytes: the hex SHA-256 of the bytes
FileHashOf(file_data) ==
    CASE file_data = "hello" -> "2cf24dba" [] file_data = "world" -> "486ea462" [] OTHER -> "e3b0c442"

UploadLeaves == <<varsSplit, varsEmbed, varsSearch, varsExt, varsJob, varsRepo, varsQueue, varsProc, varsHist>>

UploadReturns(u, ret) == up' = [up EXCEPT ![u].pc = "idle", ![u].ret = ret]

\* execute up to find_by_hash: the validation and the hash; `stored` notes
\* whether a File with this hash exists when the call begins
UploadValidate(u) ==
    /\ up[u].pc = "idle"
    /\ \E file_name \in FileNames, file_data \in FileDatas :
        IF file_name = " " \/ file_data = ""
        THEN up' = [up EXCEPT ![u] = [IdleUpload EXCEPT !.file_name = file_name,
                                                        !.file_data = file_data,
                                                        !.ret = "ValidationError"]]
        ELSE up' = [up EXCEPT ![u] =
                      [IdleUpload EXCEPT !.pc = "find_by_hash",
                                         !.file_name = file_name,
                                         !.file_data = file_data,
                                         !.file_hash = FileHashOf(file_data),
                                         !.stored = \E f \in fileRows :
                                                       f.file_hash = FileHashOf(file_data)]]
    /\ UNCHANGED <<fileRows, blobs, nextUuid>>
    /\ UNCHANGED UploadLeaves

\* if let Ok(Some(_)) = file_repository.find_by_hash(hash): only a lookup that
\* succeeds and finds a row ends the upload
UploadFindByHash(u) ==
    /\ up[u].pc = "find_by_hash"
    /\ \E dbOk \in BOOLEAN :
        IF dbOk /\ \E f \in fileRows : f.file_hash = up[u].file_hash
        THEN UploadReturns(u, "DuplicateFile")
        ELSE up' = [up EXCEPT ![u].pc = "store_file"]
    /\ UNCHANGED <<fileRows, blobs, nextUuid>>
    /\ UNCHANGED UploadLeaves

\* file_storage.store_file: a new file named by a fresh Uuid
UploadStoreFile(u) ==
    /\ up[u].pc = "store_file"
    /\ \/ /\ UploadReturns(u, "StorageError")
          /\ UNCHANGED <<blobs, nextUuid>>
       \/ /\ nextUuid <= MaxUploads
          /\ blobs' = blobs \cup {nextUuid}
          /\ nextUuid' = nextUuid + 1
          /\ up' = [up EXCEPT ![u].pc = "save", ![u].path = nextUuid]
    /\ UNCHANGED fileRows
    /\ UNCHANGED UploadLeaves

\* File::new and file_repository.save(&file), a plain insert; the File's own
\* fresh Uuid is written with the number of its blob
UploadSave(u) ==
    /\ up[u].pc = "save"
    /\ \/ /\ UploadReturns(u, "RepositoryError")
          /\ UNCHANGED fileRows
       \/ /\ fileRows' = fileRows \cup {[id |-> up[u].path, file_path |-> up[u].path,
                                         file_name |-> up[u].file_name,
                                         file_hash |-> up[u].file_hash]}
          /\ UploadReturns(u, "Ok")
    /\ UNCHANGED <<blobs, nextUuid>>
    /\ UNCHANGED UploadLeaves

NextUpload ==
    \E u \in Clients :
        \/ UploadValidate(u)
        \/ UploadFindByHash(u)
        \/ UploadStoreFile(u)
        \/ UploadSave(u)

InitSpecUpload ==
    /\ InitJobIdle /\ InitRepo /\ InitQueue /\ InitProc /\ InitHist /\ InitSplitIdle
    /\ InitEmbedIdle /\ InitSearchIdle /\ InitUpload /\ InitExtIdle

SpecUpload == InitSpecUpload /\ [][NextUpload]_vars

\* C30: at most one File exists per content hash, also after concurrent uploads
\* of the same bytes, and an upload whose hash is already stored returns
\* DuplicateFile without storing a blob or a File
C30_OneFilePerHash ==
    /\ \A f, g \in fileRows : f.file_hash = g.file_hash => f = g
    /\ \A u \in Clients :
          up[u].stored =>
              /\ up[u].pc \in {"find_by_hash", "idle"}
              /\ up[u].pc = "idle" => up[u].ret = "DuplicateFile"

-----------------------------------------------------------------------------
(* SpecUploadProc: one caller of UploadWithProcessingUseCase::execute, with  *)
(* the upload and the queue_processing_job call it makes                     *)

MAX_VERIFICATION_ATTEMPTS == 10
VERIFICATION_DELAY_MS == 50

\* the caller, who runs the two inner use cases in its own frames up[..], cl[..]
Uploader == "c1"

\* Uuid as the string a job row keeps of it
FileKey(n) == <<"f1", "f2", "f3", "f4", "f5">>[n]

UwpLeaves == <<varsSplit, varsEmbed, varsSearch, varsJob, varsQueue, varsHist, varsRepo,
               cn, cons, wk, fileRows, blobs, nextUuid, dir, pg, sse, ps, sl>>

UwpReturns(ret, message) ==
    uwp' = [uwp EXCEPT !.pc = "idle", !.ret = ret, !.message = message]

\* what file_repository.find_by_id(file_id) answers: an error, or the row when
\* this connection sees it
FindByIdOutcomes(file_id) ==
    {"Err", "None"} \cup (IF \E f \in fileRows : f.id = file_id THEN {"Some"} ELSE {})

\* status of the response
StatusOfProcessing(job_id) == "processing"

StatusOf(job_id) == IF job_id # None THEN "processing" ELSE "uploaded"

\* Ok(UploadWithProcessingResponse { .. })
UwpResponds(job_id, queue_ret) ==
    uwp' = [uwp EXCEPT !.pc = "idle", !.ret = "Ok", !.job_id = job_id,
                       !.queue_ret = queue_ret, !.status = StatusOf(job_id),
                       !.message = IF job_id # None
                                   THEN "File uploaded and processing started successfully"
                                   ELSE "File uploaded successfully"]

\* a request arrives
UwpBegin ==
    /\ uwp.pc = "idle"
    /\ \E auto_process \in BOOLEAN :
         uwp' = [IdleUwp EXCEPT !.pc = "upload", !.auto_process = auto_process]
    /\ up' = [up EXCEPT ![Uploader] = IdleUpload]
    /\ cl' = [cl EXCEPT ![Uploader] = IdleClient]
    /\ UNCHANGED UwpLeaves

\* self.upload_file_use_case.execute(upload_request).await
UwpUploadStep ==
    /\ uwp.pc = "upload"
    /\ up[Uploader].ret = "none"
    /\ \/ UploadValidate(Uploader)
       \/ UploadFindByHash(Uploader)
       \/ UploadStoreFile(Uploader)
       \/ UploadSave(Uploader)

\* the `?` on the upload's result
UwpUploaded ==
    /\ uwp.pc = "upload"
    /\ up[Uploader].pc = "idle"
    /\ up[Uploader].ret # "none"
    /\ IF up[Uploader].ret = "Ok"
       THEN uwp' = [uwp EXCEPT !.pc = "verify", !.file_id = up[Uploader].path]
       ELSE UwpReturns("UploadError", up[Uploader].ret)
    /\ UNCHANGED <<up, cl>>
    /\ UNCHANGED UwpLeaves

\* the first find_by_id, outside the loop, and the sleep of 100 ms after it
UwpVerify ==
    /\ uwp.pc = "verify"
    /\ \E found \in FindByIdOutcomes(uwp.file_id) :
        CASE found = "Some" -> uwp' = [uwp EXCEPT !.pc = "poll", !.found = TRUE, !.slept_ms = 100]
          [] found = "None" -> UwpReturns("RepositoryError", "not found in database after upload")
          [] OTHER          -> UwpReturns("RepositoryError", "Failed to verify file exists after upload")
    /\ UNCHANGED <<up, cl>>
    /\ UNCHANGED UwpLeaves

\* one turn of the verification loop
UwpPoll ==
    /\ uwp.pc = "poll"
    /\ LET attempts == uwp.verification_attempts + 1 IN
       \E found \in FindByIdOutcomes(uwp.file_id) :
        CASE found = "Some" ->
               uwp' = [uwp EXCEPT !.pc = "queue", !.verification_attempts = attempts,
                                  !.found = TRUE]
          [] found = "None" ->
               IF attempts < MAX_VERIFICATION_ATTEMPTS
               THEN uwp' = [uwp EXCEPT !.verification_attempts = attempts, !.found = FALSE,
                                       !.slept_ms = @ + VERIFICATION_DELAY_MS]
               ELSE uwp' = [uwp EXCEPT !.pc = "idle", !.ret = "RepositoryError",
                                       !.verification_attempts = attempts, !.found = FALSE,
                                       !.message = "not committed to database after 10 attempts"]
          [] OTHER ->
               uwp' = [uwp EXCEPT !.pc = "idle", !.ret = "RepositoryError",
                                  !.verification_attempts = attempts,
                                  !.message = "Failed to verify file is committed"]
    /\ UNCHANGED <<up, cl>>
    /\ UNCHANGED UwpLeaves

\* if request.auto_process { queue_job_use_case.execute(..) } else { None }:
\* without auto_process the response; with it the call, up to the find_by_id
\* of QueueProcessingJobUseCase::execute
UwpQueue ==
    /\ uwp.pc = "queue"
    /\ IF ~uwp.auto_process
       THEN UwpResponds(None, "none") /\ UNCHANGED cl
       ELSE \E found \in FindByIdOutcomes(uwp.file_id) :
            CASE found = "Some" ->
                   /\ uwp' = [uwp EXCEPT !.pc = "queueing"]
                   /\ cl' = [cl EXCEPT ![Uploader] =
                               [IdleClient EXCEPT !.pc = "check",
                                                  !.file_id = FileKey(uwp.file_id),
                                                  !.job_type = FileProcessing]]
              [] found = "None" -> UwpResponds(None, "FileNotFound") /\ UNCHANGED cl
              [] OTHER          -> UwpResponds(None, "RepositoryError") /\ UNCHANGED cl
    /\ UNCHANGED up
    /\ UNCHANGED UwpLeaves

\* the rest of QueueProcessingJobUseCase::execute
UwpQueueStep ==
    /\ uwp.pc = "queueing"
    /\ \/ QCheck(Uploader)
       \/ QSave(Uploader)
       \/ EnqInsert(Uploader)
       \/ EnqSend(Uploader)
       \/ EnqStats(Uploader)

\* match on the result of the queue call: Ok(r) => Some(r.job_id), the id of
\* the job the call constructed; Err(e) => None. Then the response
UwpQueued ==
    /\ uwp.pc = "queueing"
    /\ cl[Uploader].pc = "idle"
    /\ cl[Uploader].ret # "none"
    /\ IF cl[Uploader].ret = "queued"
       THEN UwpResponds(<<nextJobId - 1>>, "queued")
       ELSE UwpResponds(None, cl[Uploader].ret)
    /\ UNCHANGED <<up, cl>>
    /\ UNCHANGED UwpLeaves

NextUploadProc ==
    \/ UwpBegin
    \/ UwpUploadStep
    \/ UwpUploaded
    \/ UwpVerify
    \/ UwpPoll
    \/ UwpQueue
    \/ UwpQueueStep
    \/ UwpQueued

InitSpecUploadProc ==
    /\ InitJobIdle /\ InitRepo /\ InitQueue /\ InitProc /\ InitHist /\ InitSplitIdle
    /\ InitAuxIdle

SpecUploadProc == InitSpecUploadProc /\ [][NextUploadProc]_vars

\* C31: a call with auto_process whose queue_processing_job call fails still
\* returns Ok with the File persisted, no job_id and status "uploaded"; a
\* response has status "processing" exactly when it has a job_id, and then the
\* job is persisted; no failure of the call comes from the queue call
C31_QueueFailureKeepsUpload ==
    /\ (uwp.pc = "idle" /\ uwp.ret = "Ok") =>
          /\ (uwp.status = "processing") <=> (uwp.job_id # None)
          /\ uwp.status \in {"processing", "uploaded"}
          /\ \E f \in fileRows : f.id = uwp.file_id
          /\ (uwp.auto_process /\ uwp.queue_ret # "queued") =>
                (uwp.job_id = None /\ uwp.status = "uploaded")
          /\ uwp.job_id # None =>
                /\ uwp.job_id[1] \in DOMAIN jobRows
                /\ jobRows[uwp.job_id[1]].file_id = FileKey(uwp.file_id)
    /\ (uwp.pc = "idle" /\ uwp.ret \notin {"Ok", "none"}) => uwp.queue_ret = "none"
    /\ uwp.pc = "queueing" => \E f \in fileRows : f.id = uwp.file_id

\* an upload with auto_process returned Ok although saving the job failed
C31_Witness ==
    /\ uwp.pc = "idle"
    /\ uwp.ret = "Ok"
    /\ uwp.auto_process
    /\ uwp.queue_ret = "RepositoryError"
    /\ uwp.status = "uploaded"
    /\ nextJobId = 2
    /\ jobRows = <<>>

\* C32: the queue call is made only after find_by_id returned the File; the
\* sleeps are 100 ms and then 50 ms per miss; and the call gives up on a File
\* it does not see only after the last of the 10 polls
C32_AbortsOnlyAfterLastPoll ==
    /\ uwp.pc \in {"queue", "queueing"} => uwp.found
    /\ uwp.pc = "poll" => uwp.slept_ms = 100 + VERIFICATION_DELAY_MS * uwp.verification_attempts
    /\ (/\ uwp.pc = "idle"
        /\ uwp.ret = "RepositoryError"
        /\ uwp.message \in {"not found in database after upload",
                            "not committed to database after 10 attempts"})
          => uwp.verification_attempts = MAX_VERIFICATION_ATTEMPTS

-----------------------------------------------------------------------------
(* SpecDirect: one caller of ProcessUrlDirectUseCase::execute and            *)
(* ProcessYoutubeDirectUseCase::execute                                      *)

MaxDirect == 2      \* File entities the direct calls create in one behaviour

\* Url::parse on the request texts: the host, the query pairs and the path
\* segments of the url crate, or no Url at all
ParsedUrls ==
    { [text |-> "https://example.com/watch?v=abc", ok |-> TRUE, host |-> "example.com",
       query |-> << <<"v", "abc">> >>, segments |-> <<"watch">>],
      [text |-> "https://youtu.be/AbCdEfGhIjK", ok |-> TRUE, host |-> "youtu.be",
       query |-> <<>>, segments |-> <<"AbCdEfGhIjK">>],
      [text |-> "https://www.youtube.com/watch?t=1&v=abc", ok |-> TRUE, host |-> "www.youtube.com",
       query |-> << <<"t", "1">>, <<"v", "abc">> >>, segments |-> <<"watch">>],
      [text |-> "https://youtube.com/embed/abc", ok |-> TRUE, host |-> "youtube.com",
       query |-> <<>>, segments |-> <<"embed", "abc">>],
      [text |-> "https://youtu.be/", ok |-> TRUE, host |-> "youtu.be",
       query |-> <<>>, segments |-> <<"">>],
      [text |-> "https://www.youtube.com/watch?v=", ok |-> TRUE, host |-> "www.youtube.com",
       query |-> << <<"v", "">> >>, segments |-> <<"watch">>],
      [text |-> "youtu.be/abc", ok |-> FALSE, host |-> "", query |-> <<>>, segments |-> <<>>] }

YoutubeHosts == {"www.youtube.com", "youtube.com", "youtu.be"}

\* Result<String, ProcessYoutubeDirectError>
VideoOk(id) == [ok |-> TRUE, val |-> id, err |-> ""]
VideoErr(msg) == [ok |-> FALSE, val |-> "", err |-> msg]

\* ProcessYoutubeDirectUseCase::extract_video_id
extract_video_id(url) ==
    CASE url.host \in {"www.youtube.com", "youtube.com"} ->
           LET vs == {i \in DOMAIN url.query : url.query[i][1] = "v"} IN
           IF vs # {}
           THEN VideoOk(url.query[CHOOSE i \in vs : \A k \in vs : i <= k][2])
           ELSE VideoErr("Could not extract video ID from YouTube URL")
      [] url.host = "youtu.be" ->
           IF url.segments # <<>>
           THEN VideoOk(url.segments[Len(url.segments)])
           ELSE VideoErr("Could not extract video ID from short YouTube URL")
      [] OTHER -> VideoErr("Not a valid YouTube URL")

DirectLeaves == <<varsSplit, varsEmbed, varsSearch, varsJob, varsQueue, varsHist, varsRepo,
                  cn, cons, wk, up, blobs, uwp, pg, sse, ps, sl>>

DirectReturns(ret, message) ==
    dir' = [dir EXCEPT !.pc = "idle", !.ret = ret, !.message = message]

\* execute up to File::new: Url::parse and, for YouTube, extract_video_id
DirectParse ==
    /\ dir.pc = "idle"
    /\ \E kind \in {"url", "youtube"}, url \in ParsedUrls, auto_process \in BOOLEAN :
        LET call == [IdleDirect EXCEPT !.kind = kind, !.url = url.text,
                                       !.auto_process = auto_process]
            video == extract_video_id(url)
        IN  IF ~url.ok
            THEN dir' = [call EXCEPT !.ret = "InvalidUrl", !.message = "relative URL without a base"]
            ELSE IF kind = "youtube" /\ ~video.ok
            THEN dir' = [call EXCEPT !.ret = "InvalidUrl", !.message = video.err]
            ELSE dir' = [call EXCEPT !.pc = "save",
                                     !.video_id = IF kind = "youtube" THEN <<video.val>> ELSE None]
    /\ cl' = [cl EXCEPT ![Uploader] = IdleClient]
    /\ UNCHANGED <<fileRows, nextUuid>>
    /\ UNCHANGED DirectLeaves

\* File::new, file_repository.save(&file) and the test of auto_process
DirectSave ==
    /\ dir.pc = "save"
    /\ \/ DirectReturns("RepositoryError", "save") /\ UNCHANGED <<fileRows, nextUuid>>
       \/ /\ nextUuid <= MaxDirect
          /\ fileRows' = fileRows \cup {[id |-> nextUuid, file_path |-> dir.url,
                                         file_name |-> dir.kind,
                                         file_hash |-> dir.url]}
          /\ nextUuid' = nextUuid + 1
          /\ IF dir.auto_process
             THEN dir' = [dir EXCEPT !.pc = "queue", !.file_id = nextUuid]
             ELSE dir' = [dir EXCEPT !.pc = "idle", !.file_id = nextUuid,
                                     !.ret = "ValidationError",
                                     !.message = "Auto-processing is required"]
    /\ UNCHANGED cl
    /\ UNCHANGED DirectLeaves

\* the job type of the request
DirectJobType == IF dir.kind = "youtube" THEN YoutubeExtraction(dir.url) ELSE UrlExtraction(dir.url)

\* From<QueueJobError>
DirectError(queue_ret) ==
    IF queue_ret \in {"RepositoryError", "ValidationError"} THEN queue_ret ELSE "QueueError"

\* queue_job_use_case.execute(queue_request), up to its find_by_id
DirectQueue ==
    /\ dir.pc = "queue"
    /\ \E found \in FindByIdOutcomes(dir.file_id) :
        CASE found = "Some" ->
               /\ dir' = [dir EXCEPT !.pc = "queueing"]
               /\ cl' = [cl EXCEPT ![Uploader] =
                           [IdleClient EXCEPT !.pc = "check",
                                              !.file_id = FileKey(dir.file_id),
                                              !.job_type = DirectJobType]]
          [] found = "None" ->
               /\ dir' = [dir EXCEPT !.pc = "idle", !.queue_ret = "FileNotFound",
                                     !.ret = DirectError("FileNotFound")]
               /\ UNCHANGED cl
          [] OTHER ->
               /\ dir' = [dir EXCEPT !.pc = "idle", !.queue_ret = "RepositoryError",
                                     !.ret = DirectError("RepositoryError")]
               /\ UNCHANGED cl
    /\ UNCHANGED <<fileRows, nextUuid>>
    /\ UNCHANGED DirectLeaves

\* the rest of QueueProcessingJobUseCase::execute
DirectQueueStep ==
    /\ dir.pc = "queueing"
    /\ \/ QCheck(Uploader)
       \/ QSave(Uploader)
       \/ EnqInsert(Uploader)
       \/ EnqSend(Uploader)
       \/ EnqStats(Uploader)

\* the `?` on the queue call's result and the response
DirectQueued ==
    /\ dir.pc = "queueing"
    /\ cl[Uploader].pc = "idle"
    /\ cl[Uploader].ret # "none"
    /\ dir' = [dir EXCEPT !.pc = "idle", !.queue_ret = cl[Uploader].ret,
                          !.ret = IF cl[Uploader].ret = "queued" THEN "Ok"
                                  ELSE DirectError(cl[Uploader].ret)]
    /\ UNCHANGED <<cl, fileRows, nextUuid>>
    /\ UNCHANGED DirectLeaves

NextDirect ==
    \/ DirectParse
    \/ DirectSave
    \/ DirectQueue
    \/ DirectQueueStep
    \/ DirectQueued

InitSpecDirect ==
    /\ InitJobIdle /\ InitRepo /\ InitQueue /\ InitProc /\ InitHist /\ InitSplitIdle
    /\ InitAuxIdle

SpecDirect == InitSpecDirect /\ [][NextDirect]_vars

\* the File and the job a returned direct call has persisted
DirectPersistedFile == \E f \in fileRows : f.id = dir.file_id

DirectPersistedJob ==
    /\ dir.file_id # 0
    /\ \E id \in DOMAIN jobRows : jobRows[id].file_id = FileKey(dir.file_id)

\* a non-empty video id stands in the query pair v or at the end of the path
VideoIdExtractable(url) ==
    \/ \E i \in DOMAIN url.query : url.query[i][1] = "v" /\ url.query[i][2] # ""
    \/ url.segments # <<>> /\ url.segments[Len(url.segments)] # ""

\* C33: process_youtube_direct returns InvalidUrl and persists no File and no
\* job unless the host is one of the three YouTube hosts and a video id can be
\* extracted; https://example.com/watch?v=abc is rejected as not a YouTube URL,
\* https://youtu.be/AbCdEfGhIjK is accepted with video id AbCdEfGhIjK
C33_YoutubeUrlValidated ==
    (dir.kind = "youtube" /\ dir.pc = "idle" /\ dir.ret # "none") =>
        LET url == CHOOSE u \in ParsedUrls : u.text = dir.url IN
        /\ ~(url.ok /\ url.host \in YoutubeHosts /\ VideoIdExtractable(url)) =>
              /\ dir.ret = "InvalidUrl"
              /\ ~DirectPersistedFile
              /\ ~DirectPersistedJob
        /\ dir.url = "https://example.com/watch?v=abc" =>
              (dir.ret = "InvalidUrl" /\ dir.message = "Not a valid YouTube URL")
        /\ dir.url = "https://youtu.be/AbCdEfGhIjK" =>
              (dir.ret # "InvalidUrl" /\ dir.video_id = <<"AbCdEfGhIjK">>)

\* C39: a direct call that returned an error has persisted no File and no job
C39_ErrorPersistsNothing ==
    (dir.pc = "idle" /\ dir.ret \notin {"Ok", "none"}) =>
        (~DirectPersistedFile /\ ~DirectPersistedJob)

-----------------------------------------------------------------------------
(* SpecStatus: ProcessingStatus::to_string and ProcessingStatus::from_string  *)
(* on strings kept as sequences of characters                                *)

\* the string literals of the two functions, character by character
StrFailedColon == <<"f", "a", "i", "l", "e", "d", ":">>
StrUnknownError == <<"U", "n", "k", "n", "o", "w", "n", " ", "e", "r", "r", "o", "r">>
StrPendingCap == <<"P", "e", "n", "d", "i", "n", "g">>
StrPending == <<"p", "e", "n", "d", "i", "n", "g">>
StrProcessing == <<"p", "r", "o", "c", "e", "s", "s", "i", "n", "g">>
StrCompleted == <<"c", "o", "m", "p", "l", "e", "t", "e", "d">>
StrFailed == <<"f", "a", "i", "l", "e", "d">>
StrDone == <<"d", "o", "n", "e">>

\* the characters of the error texts
ReasonChars == {"E", "r", " "}

Reasons == UNION {[1..n -> ReasonChars] : n \in 0..MaxLen}

Statuses == {Pending, Processing, Completed} \cup {Failed(r) : r \in Reasons}

\* the characters of a status string
StrOf(text) ==
    CASE text = "pending"    -> StrPending
      [] text = "processing" -> StrProcessing
      [] text = "completed"  -> StrCompleted
      [] OTHER               -> StrFailed

\* ProcessingStatus::to_string
to_string(status) == StrOf(status_to_string(status))

\* char::to_lowercase
LowerChar(c) ==
    CASE c = "E" -> "e" [] c = "P" -> "p" [] c = "F" -> "f" [] c = "D" -> "d" [] OTHER -> c

to_lowercase(str) == [i \in DOMAIN str |-> LowerChar(str[i])]

starts_with(str, prefix) ==
    Len(str) >= Len(prefix) /\ SubSeq(str, 1, Len(prefix)) = prefix

\* str::trim
RECURSIVE trim_start(_)
trim_start(str) == IF str # <<>> /\ Head(str) = " " THEN trim_start(Tail(str)) ELSE str

RECURSIVE trim_end(_)
trim_end(str) ==
    IF str # <<>> /\ str[Len(str)] = " " THEN trim_end(SubSeq(str, 1, Len(str) - 1)) ELSE str

trim(str) == trim_end(trim_start(str))

\* Result<ProcessingStatus, String>
StatusOk(status) == [ok |-> TRUE, val |-> status]
StatusErr == [ok |-> FALSE, val |-> None]

\* ProcessingStatus::from_string
from_string(str) ==
    LET l == to_lowercase(str) IN
    CASE l = StrPending    -> StatusOk(Pending)
      [] l = StrProcessing -> StatusOk(Processing)
      [] l = StrCompleted  -> StatusOk(Completed)
      [] l = StrFailed     -> StatusOk(Failed(StrUnknownError))
      [] starts_with(l, StrFailedColon) ->
           StatusOk(Failed(trim(SubSeq(l, Len(StrFailedColon) + 1, Len(l)))))
      [] OTHER          -> StatusErr

\* strings handed to from_string that no to_string wrote
StatusTexts ==
    {StrPendingCap, StrDone, StrFailedColon, StrFailedColon \o <<" ", "E", "r", " ">>}

IdleStatus == [pc |-> "idle", status |-> None, text |-> <<>>, parsed |-> StatusErr]

StatusLeaves == <<varsSplit, varsEmbed, varsSearch, varsUpload, varsJob, varsRepo, varsQueue,
                  varsProc, varsHist, uwp, dir, pg, sse, sl>>

\* let string_repr = status.to_string()
StatusToString ==
    /\ ps.pc = "idle"
    /\ \E status \in Statuses :
         ps' = [IdleStatus EXCEPT !.pc = "text", !.status = status, !.text = to_string(status)]
    /\ UNCHANGED StatusLeaves

\* a string met in the status column
StatusRead ==
    /\ ps.pc = "idle"
    /\ \E text \in StatusTexts : ps' = [IdleStatus EXCEPT !.pc = "text", !.text = text]
    /\ UNCHANGED StatusLeaves

\* ProcessingStatus::from_string(&string_repr)
StatusFromString ==
    /\ ps.pc = "text"
    /\ ps' = [ps EXCEPT !.pc = "done", !.parsed = from_string(ps.text)]
    /\ UNCHANGED StatusLeaves

NextStatus ==
    \/ StatusToString
    \/ StatusRead
    \/ StatusFromString

InitSpecStatus ==
    /\ InitJobIdle /\ InitRepo /\ InitQueue /\ InitProc /\ InitHist /\ InitSplitIdle
    /\ InitEmbedIdle /\ InitSearchIdle /\ InitUpload
    /\ uwp = IdleUwp /\ dir = IdleDirect /\ pg = IdlePaging /\ sse = IdleStream
    /\ ps = IdleStatus /\ sl = IdleSplitLoop

SpecStatus == InitSpecStatus /\ [][NextStatus]_vars

\* C34: every ProcessingStatus, Failed with any text included, is what
\* from_string makes of its to_string
C34_StringRoundTrip ==
    (ps.pc = "done" /\ ps.status # None) =>
        (ps.parsed.ok /\ ps.parsed.val = ps.status)

-----------------------------------------------------------------------------
(* SpecPaging: one caller of ListFilesUseCase::execute and of                 *)
(* GetFileChunksUseCase::execute                                             *)

\* skip and limit of the requests; None is an absent Option
ListSkips  == {-1, 0, 5}
ListLimits == {-1, 0, 1, 1000, 1001}
ChunkSkips == {None, <<-1>>, <<0>>, <<5>>}
ChunkLimits == {None, <<-1>>, <<0>>, <<1>>, <<100>>, <<101>>}

PagingLeaves == <<varsSplit, varsEmbed, varsSearch, varsUpload, varsJob, varsRepo, varsQueue,
                  varsProc, varsHist, uwp, dir, sse, ps, sl>>

PagingReturns(ret) == pg' = [pg EXCEPT !.pc = "idle", !.ret = ret]

Min2(a, b) == IF a <= b THEN a ELSE b

\* Option::unwrap_or
unwrap_or(opt, default) == IF opt = None THEN default ELSE opt[1]

\* ListFilesUseCase::execute up to the first repository call
ListFilesValidate ==
    /\ pg.pc = "idle"
    /\ \E skip \in ListSkips, limit \in ListLimits :
        LET call == [IdlePaging EXCEPT !.op = "list_files", !.skip = <<skip>>,
                                       !.limit = <<limit>>]
        IN  IF skip < 0 \/ limit <= 0 \/ limit > 1000
            THEN pg' = [call EXCEPT !.ret = "ValidationError"]
            ELSE pg' = [call EXCEPT !.pc = "find_all"]
    /\ UNCHANGED PagingLeaves

\* file_repository.find_all(request.skip, request.limit)
ListFilesFindAll ==
    /\ pg.pc = "find_all"
    /\ \E dbOk \in BOOLEAN :
        LET asked == [pg EXCEPT !.calls = Append(@, [op |-> "find_all", skip |-> pg.skip[1],
                                                     limit |-> pg.limit[1]])]
        IN  pg' = IF dbOk THEN [asked EXCEPT !.pc = "count"]
                  ELSE [asked EXCEPT !.pc = "idle", !.ret = "RepositoryError"]
    /\ UNCHANGED PagingLeaves

\* file_repository.count() / chunk_repository.count_by_file_id and the response
PagingCount ==
    /\ pg.pc = "count"
    /\ \E dbOk \in BOOLEAN : PagingReturns(IF dbOk THEN "Ok" ELSE "RepositoryError")
    /\ UNCHANGED PagingLeaves

\* GetFileChunksUseCase::execute: file_repository.find_by_id(request.file_id)
GetChunksFindFile ==
    /\ pg.pc = "idle"
    /\ \E f \in RequestedFiles, skip \in ChunkSkips, limit \in ChunkLimits, dbOk \in BOOLEAN :
        LET call == [IdlePaging EXCEPT !.op = "get_file_chunks", !.file_id = f,
                                       !.skip = skip, !.limit = limit]
        IN  IF ~dbOk THEN pg' = [call EXCEPT !.ret = "RepositoryError"]
            ELSE IF f \notin FileIds THEN pg' = [call EXCEPT !.ret = "FileNotFound"]
            ELSE pg' = [call EXCEPT !.pc = "page"]
    /\ UNCHANGED PagingLeaves

\* skip.unwrap_or(0), limit.unwrap_or(50).min(100) and
\* chunk_repository.find_by_file_id_paginated(file_id, skip, limit)
GetChunksPage ==
    /\ pg.pc = "page"
    /\ \E dbOk \in BOOLEAN :
        LET skip  == unwrap_or(pg.skip, 0)
            limit == Min2(unwrap_or(pg.limit, 50), 100)
            asked == [pg EXCEPT !.calls = Append(@, [op |-> "find_by_file_id_paginated",
                                                     skip |-> skip, limit |-> limit])]
        IN  pg' = IF dbOk THEN [asked EXCEPT !.pc = "count"]
                  ELSE [asked EXCEPT !.pc = "idle", !.ret = "RepositoryError"]
    /\ UNCHANGED PagingLeaves

NextPaging ==
    \/ ListFilesValidate
    \/ ListFilesFindAll
    \/ GetChunksFindFile
    \/ GetChunksPage
    \/ PagingCount

InitSpecPaging ==
    /\ InitJobIdle /\ InitRepo /\ InitQueue /\ InitProc /\ InitHist /\ InitSplitIdle
    /\ InitEmbedIdle /\ InitSearchIdle /\ InitUpload
    /\ uwp = IdleUwp /\ dir = IdleDirect /\ sse = IdleStream /\ ps = None /\ sl = IdleSplitLoop
    /\ pg = IdlePaging

SpecPaging == InitSpecPaging /\ [][NextPaging]_vars

\* C35: no paged repository query is made with skip < 0 or with a limit outside
\* 1..1000 (list_files) or 1..100 (get_file_chunks), and list_files answers a
\* request outside these ranges with ValidationError
C35_PagingInRange ==
    /\ \A i \in DOMAIN pg.calls :
          /\ pg.calls[i].skip >= 0
          /\ pg.calls[i].limit >= 1
          /\ pg.calls[i].limit <= (IF pg.op = "list_files" THEN 1000 ELSE 100)
    /\ (pg.op = "list_files" /\ pg.pc = "idle"
          /\ (pg.skip[1] < 0 \/ pg.limit[1] < 1 \/ pg.limit[1] > 1000))
        => (pg.ret = "ValidationError" /\ pg.calls = <<>>)

-----------------------------------------------------------------------------
(* SpecStream: SseHandler::job_progress_stream beside a requester, the queue  *)
(* and a worker                                                              *)

MaxEvents == 2      \* events counted on one stream; later ones are not counted

StreamLeaves == <<varsSplit, varsEmbed, varsSearch, varsUpload, varsJob, varsRepo, varsQueue,
                  varsProc, varsHist, uwp, dir, pg, ps, sl>>

\* the events sent so far, counted up to MaxEvents
Sent(n) == IF n < MaxEvents THEN n + 1 ELSE n

\* JobStatusDto::from_job_with_extras: is_terminal of the loaded job
DtoIsTerminal(job, row) == is_terminal(job.status)

\* GET of the stream for a job id, known or not
StreamOpen ==
    /\ sse.pc = "idle"
    /\ \E job_id \in 0..MaxQueued : sse' = [IdleStream EXCEPT !.pc = "open", !.job_id = job_id]
    /\ UNCHANGED StreamLeaves

\* one turn of the unfold closure: GetJobStatusUseCase::execute, the event, and
\* the next state of the stream
StreamPoll ==
    /\ sse.pc = "open"
    /\ \E dbOk \in BOOLEAN :
        LET found == RepoFindById(jobRows, sse.job_id, clock) IN
        IF ~dbOk \/ found = None \/ ~found[1].ok
        THEN sse' = [sse EXCEPT !.pc = "ended", !.sent = Sent(@), !.last = "error",
                                !.row_status = ""]
        ELSE LET row == jobRows[sse.job_id] IN
             sse' = [sse EXCEPT !.pc = IF DtoIsTerminal(found[1].job, row) THEN "ended"
                                       ELSE "open",
                                !.sent = Sent(@), !.last = "job_progress",
                                !.row_status = row.status]
    /\ UNCHANGED StreamLeaves

NextStream ==
    \/ NextWork
    \/ StreamOpen
    \/ StreamPoll

InitSpecStream ==
    /\ InitJobIdle /\ InitRepo /\ InitQueue /\ InitProc /\ InitHist /\ InitSplitIdle
    /\ InitAuxIdle

SpecStream == InitSpecStream /\ [][NextStream]_vars

\* C36: a stream that has sent the event of a job whose durable status was
\* terminal has ended; a stream that ended did so on an error event, or on the
\* event of a job whose durable status was terminal
C36_StreamEndsOnTerminal ==
    /\ (sse.last = "job_progress" /\ sse.row_status \in {"completed", "failed"})
          => sse.pc = "ended"
    /\ sse.pc = "ended" =>
          \/ sse.last = "error"
          \/ sse.last = "job_progress" /\ sse.row_status \in {"completed", "failed"}

-----------------------------------------------------------------------------
(* SpecPool: one requester of file processing, the forwarder task and two     *)
(* workers running process_job                                               *)

NextPool ==
    \/ \E c \in Producers :
         \/ QFindFileOf(c, {FileProcessing})
         \/ QCheck(c)
         \/ QSave(c)
         \/ EnqInsert(c)
         \/ EnqSend(c)
         \/ EnqStats(c)
    \/ ForwarderStep
    \/ \E w \in Workers : WorkerStep(w)

InitSpecPool ==
    /\ InitJobIdle /\ InitRepo /\ InitQueue /\ InitProc /\ InitHist /\ InitSplitIdle
    /\ InitAuxIdle

SpecPool == InitSpecPool /\ [][NextPool]_vars

\* the stages of process_job between the start of the job and its final write
PipelineStages ==
    {"p01", "find_file", "p02", "extract", "p03", "save_chunks", "p06", "embed", "save_emb"}

RunningPipeline(w) == wk[w].pc \in PipelineStages

\* C37: no two workers run the extract-chunk-embed pipeline for one file_id at
\* the same time
C37_OneWorkerPerFile ==
    \A w, v \in Workers :
        (w # v /\ RunningPipeline(w) /\ RunningPipeline(v))
            => wk[w].job.file_id # wk[v].job.file_id

-----------------------------------------------------------------------------
(* Chunks and embeddings of finished jobs *)

\* C38: every chunk persisted by a job whose durable status is terminal has
\* its embedding persisted, also when the job failed while the embeddings were
\* generated or saved
C38_TerminalJobChunksEmbedded ==
    \A id \in DOMAIN jobRows :
        RowIsTerminal(jobRows[id]) =>
            \A c \in ChunksOfJob(id) : \E e \in embStore : e.chunk_id = c.id

-----------------------------------------------------------------------------
(* SpecSplitLoop: one split_text call followed through recursive_split and,   *)
(* turn by turn, through the while loop of split_by_length                   *)

MaxPushed == 5      \* chunks kept of those a loop has pushed

SplitLoopLeaves == <<varsEmbed, varsSearch, varsUpload, varsJob, varsRepo, varsQueue,
                     varsProc, varsHist, uwp, dir, pg, sse, ps>>

\* the texts in which no separator occurs
Unbroken == {text \in SplitInputs : \A i \in DOMAIN text : text[i] \notin {" ", "\n"}}

\* split_text: the test of the length
SplitEntry ==
    /\ sl.pc = "call"
    /\ IF ByteLen(stext) <= smax
       THEN /\ sl' = [sl EXCEPT !.pc = "done"]
            /\ schunks' = << <<stext>> >>
       ELSE /\ sl' = [sl EXCEPT !.pc = "recursive_split"]
            /\ UNCHANGED schunks
    /\ UNCHANGED <<stext, smax>>
    /\ UNCHANGED SplitLoopLeaves

\* recursive_split on the whole text: on to the next separator when the text
\* does not hold this one, the loop over the parts when it does, and
\* split_by_length at the empty separator
SplitRecursive ==
    /\ sl.pc = "recursive_split"
    /\ LET separator == separators[sl.separator_index]
           parts == StrSplit(stext, separator)
       IN  IF separator = <<>>
           THEN sl' = [sl EXCEPT !.pc = "split_by_length"] /\ UNCHANGED schunks
           ELSE IF Len(parts) = 1
           THEN sl' = [sl EXCEPT !.separator_index = @ + 1] /\ UNCHANGED schunks
           ELSE /\ sl' = [sl EXCEPT !.pc = "done"]
                /\ schunks' = <<Accumulate(parts, <<>>, <<>>, smax, sl.separator_index)>>
    /\ UNCHANGED <<stext, smax>>
    /\ UNCHANGED SplitLoopLeaves

\* the chunks pushed, the last MaxPushed of them
Pushed(chunks, chunk) ==
    IF Len(chunks) < MaxPushed THEN Append(chunks, chunk) ELSE Append(Tail(chunks), chunk)

\* one turn of `while start < chars.len()` in split_by_length
SplitByLengthTurn ==
    /\ sl.pc = "split_by_length"
    /\ IF sl.start < Len(stext)
       THEN LET end == IF sl.start + smax <= Len(stext) THEN sl.start + smax ELSE Len(stext)
                chunks == Pushed(sl.chunks, SubSeq(stext, sl.start + 1, end))
            IN  IF end = Len(stext)
                THEN /\ sl' = [sl EXCEPT !.pc = "done", !.chunks = chunks]
                     /\ schunks' = <<chunks>>
                ELSE /\ sl' = [sl EXCEPT !.start = end, !.chunks = chunks]
                     /\ UNCHANGED schunks
       ELSE /\ sl' = [sl EXCEPT !.pc = "done"]
            /\ schunks' = <<sl.chunks>>
    /\ UNCHANGED <<stext, smax>>
    /\ UNCHANGED SplitLoopLeaves

NextSplitLoop ==
    \/ SplitEntry
    \/ SplitRecursive
    \/ SplitByLengthTurn

\* every max_chunk_size from 0 on; at 0 the texts without separators
InitSpecSplitLoop ==
    /\ InitJobIdle /\ InitRepo /\ InitQueue /\ InitProc /\ InitHist
    /\ InitEmbedIdle /\ InitSearchIdle /\ InitUpload
    /\ uwp = IdleUwp /\ dir = IdleDirect /\ pg = IdlePaging /\ sse = IdleStream /\ ps = None
    /\ sl = IdleSplitLoop
    /\ smax \in 0..MaxChunk
    /\ stext \in IF smax = 0 THEN Unbroken ELSE SplitInputs
    /\ schunks = None

SpecSplitLoop == InitSpecSplitLoop /\ [][NextSplitLoop]_vars

\* the call is not suspended for ever at any of its steps
FairSpecSplitLoop == SpecSplitLoop /\ WF_vars(NextSplitLoop)

\* C40: every split_text call returns, for every text and every
\* max_chunk_size from 0 on
C40_SplitTextTerminates == <>(sl.pc = "done")

=============================================================================
